---- MODULE Spec2Model ----
(***************************************************************************)
(* Verification model of the scalar/aggregate expression compilation core: *)
(* qualifier prioritization, short-circuit codegen of logical operators    *)
(* and the aggregate initial-value resolver.                               *)
(***************************************************************************)
EXTENDS Integers, Sequences, FiniteSets, TLC

VARIABLES
  \* ---- CodeGenerator::prioritizeQuals ----
  simple_quals,     \* ra_exe_unit.simple_quals (sequence of expression pointers)
  quals,            \* ra_exe_unit.quals
  hoisted_quals,    \* PlanState::HoistedFiltersSet (set of pointers)
  primary_quals,    \* output vector
  deferred_quals,   \* output vector
  short_circuit,    \* the local flag / return value
  pq_pc,            \* position inside prioritizeQuals
  pq_idx,           \* loop index of the current for loop
  \* ---- CodeGenerator::codegenLogical / codegenLogicalShortCircuit ----
  cg_expr,          \* the logical BinOper handed to codegenLogical
  cg_stack,         \* call stack of codegen, innermost call last
  fetch_cache,      \* cgen_state_->fetch_cache_: columns whose decoding is cached
  cg_entry_cache,   \* fetch_cache_ as it was when codegenLogical was entered
  cg_ret,           \* llvm::Value* returned by the call that returned last
  \* ---- get_agg_initial_val / init_agg_val_vec ----
  agg_call,         \* which entry point is being called, and "done" afterwards
  agg_args,         \* the arguments of that call
  agg_result,       \* what the call returned (or that it aborted)
  \* ---- side-effect-free helpers (type utilities, visitors, date-time scaling) ----
  fn_call,          \* which helper is being called, and its position
  fn_args,          \* the arguments of that call
  fn_result         \* what the call returned, threw or that it aborted

pqVars == <<simple_quals, quals, hoisted_quals, primary_quals, deferred_quals,
            short_circuit, pq_pc, pq_idx>>
cgVars == <<cg_expr, cg_stack, fetch_cache, cg_entry_cache, cg_ret>>
aggVars == <<agg_call, agg_args, agg_result>>
fnVars == <<fn_call, fn_args, fn_result>>

vars == <<simple_quals, quals, hoisted_quals, primary_quals, deferred_quals,
          short_circuit, pq_pc, pq_idx,
          cg_expr, cg_stack, fetch_cache, cg_entry_cache, cg_ret,
          agg_call, agg_args, agg_result,
          fn_call, fn_args, fn_result>>

\* what each component leaves alone
pqOthers == <<cgVars, aggVars, fnVars>>
cgOthers == <<pqVars, aggVars, fnVars>>
aggOthers == <<pqVars, cgVars, fnVars>>
fnOthers == <<pqVars, cgVars, aggVars>>

\* values of a component that is not running
NoValue == [ir |-> "none"]
IdleQuals ==
  /\ simple_quals = <<>> /\ quals = <<>> /\ hoisted_quals = {}
  /\ primary_quals = <<>> /\ deferred_quals = <<>> /\ short_circuit = FALSE
  /\ pq_pc = "idle" /\ pq_idx = 0
IdleCodegen ==
  /\ cg_expr = NoValue /\ cg_stack = <<>> /\ fetch_cache = {}
  /\ cg_entry_cache = {} /\ cg_ret = NoValue
IdleAgg ==
  /\ agg_call = "idle" /\ agg_args = NoValue /\ agg_result = NoValue
IdleFn ==
  /\ fn_call = "idle" /\ fn_args = NoValue /\ fn_result = NoValue

-----------------------------------------------------------------------------
(* Bounds of the model *)
NumPtrs == 8        \* number of distinct expression objects a unit may hold
MaxSimple == 1      \* longest simple_quals list
MaxQuals == 3       \* longest quals list
MaxHoisted == 1     \* largest hoisted set

-----------------------------------------------------------------------------
(* Types and expression nodes (hdk::ir) *)
Ty(k, n) == [k |-> k, nullable |-> n]

ColumnVar(c, ty) == [kind |-> "ColumnVar", col |-> c, type |-> ty]
Constant(ty, isnull, v) == [kind |-> "Constant", type |-> ty, isNull |-> isnull, value |-> v]
UOper(op, arg, ty) == [kind |-> "UOper", optype |-> op, operand |-> arg, type |-> ty]
BinOper(op, l, r, ty) ==
  [kind |-> "BinOper", optype |-> op, left |-> l, right |-> r, type |-> ty]
LikeExpr(a, p, simple) ==
  [kind |-> "LikeExpr", arg |-> a, like |-> p, is_simple |-> simple,
   type |-> Ty("bool", a.type.nullable)]
RegexpExpr(a, p) ==
  [kind |-> "RegexpExpr", arg |-> a, pattern |-> p, type |-> Ty("bool", a.type.nullable)]
FunctionOper(args, ty) == [kind |-> "FunctionOper", args |-> args, type |-> ty]
\* the likelihood hint is the rational n / d
LikelihoodExpr(a, n, d) ==
  [kind |-> "LikelihoodExpr", arg |-> a, likelihood |-> <<n, d>>,
   type |-> Ty("bool", a.type.nullable)]

-----------------------------------------------------------------------------
(* ScalarExprVisitor: children of a node in default visiting order *)
Children(e) ==
  CASE e.kind = "UOper" -> <<e.operand>>
    [] e.kind = "BinOper" -> <<e.left, e.right>>
    [] e.kind = "LikeExpr" -> <<e.arg, e.like>>
    [] e.kind = "RegexpExpr" -> <<e.arg, e.pattern>>
    [] e.kind = "FunctionOper" -> e.args
    [] e.kind = "LikelihoodExpr" -> <<e.arg>>
    [] OTHER -> <<>>

RECURSIVE VisitAll(_)
RECURSIVE VisitSeq(_)
\* every node the traversal reaches, in visiting order
VisitAll(e) == <<e>> \o VisitSeq(Children(e))
VisitSeq(s) == IF s = <<>> THEN <<>> ELSE VisitAll(Head(s)) \o VisitSeq(Tail(s))

\* ExprByPredicateVisitor::collect with the is_div predicate
ZeroCheckedTypes == {"bool", "int8", "int16", "int32", "int64", "decimal", "fp32", "fp64"}

is_div(e) ==
  /\ e.kind = "BinOper"
  /\ e.optype = "kDIVIDE"
  /\ LET rhs == e.right IN
       \/ rhs.kind # "Constant"
       \/ rhs.isNull
       \/ (rhs.type.k \in ZeroCheckedTypes /\ rhs.value = 0)

contains_unsafe_division(e) == SelectSeq(VisitAll(e), is_div) # <<>>

\* should_defer_eval without the REGEXP test
should_defer_eval_NoRegexp(e) ==
  IF e.kind = "LikeExpr" THEN TRUE
  ELSE IF e.kind = "FunctionOper" THEN TRUE
  ELSE IF e.kind # "BinOper" THEN FALSE
  ELSE IF contains_unsafe_division(e) THEN TRUE
  ELSE e.right.type.k = "array"

\* should_defer_eval without the unsafe-division test
should_defer_eval_NoDivision(e) ==
  IF e.kind = "LikeExpr" THEN TRUE
  ELSE IF e.kind = "RegexpExpr" THEN TRUE
  ELSE IF e.kind = "FunctionOper" THEN TRUE
  ELSE IF e.kind # "BinOper" THEN FALSE
  ELSE e.right.type.k = "array"

should_defer_eval(e) ==
  IF e.kind = "LikeExpr" THEN TRUE
  ELSE IF e.kind = "RegexpExpr" THEN TRUE
  ELSE IF e.kind = "FunctionOper" THEN TRUE
  ELSE IF e.kind # "BinOper" THEN FALSE
  ELSE IF contains_unsafe_division(e) THEN TRUE
  ELSE e.right.type.k = "array"

-----------------------------------------------------------------------------
(* NullableValue<T> (Likelihood = NullableValue<float>); the float value is   *)
(* kept as the exact rational n / d.                                          *)
RECURSIVE GCD(_, _)
GCD(a, b) == IF b = 0 THEN a ELSE GCD(b, a % b)

NVInvalid == [valid |-> FALSE, n |-> 0, d |-> 1]
NVValid(n, d) ==
  LET g == GCD(IF n < 0 THEN -n ELSE n, d) IN
    [valid |-> TRUE, n |-> n \div (IF g = 0 THEN 1 ELSE g), d |-> d \div (IF g = 0 THEN 1 ELSE g)]
NVisInvalid(a) == ~a.valid
NVAdd(a, b) == IF a.valid /\ b.valid THEN NVValid(a.n * b.d + b.n * a.d, a.d * b.d) ELSE NVInvalid
NVSub(a, b) == IF a.valid /\ b.valid THEN NVValid(a.n * b.d - b.n * a.d, a.d * b.d) ELSE NVInvalid
NVMul(a, b) == IF a.valid /\ b.valid THEN NVValid(a.n * b.n, a.d * b.d) ELSE NVInvalid
NVHalf(a) == IF a.valid THEN NVValid(a.n, a.d * 2) ELSE NVInvalid
\* operator<(T) and operator>(T) against the constant n / d
NVLess(a, n, d) == a.valid /\ a.n * d < n * a.d
NVGreater(a, n, d) == a.valid /\ a.n * d > n * a.d

RECURSIVE get_likelihood(_)
get_likelihood_UnknownAsZero(e) ==
  LET truth == NVValid(1, 1)
      known(a) == IF a.valid THEN a ELSE NVValid(0, 1) IN
  IF e.kind = "LikelihoodExpr" THEN NVValid(e.likelihood[1], e.likelihood[2])
  ELSE IF e.kind = "UOper" THEN
    LET oper_likelihood == get_likelihood(e.operand) IN
      IF NVisInvalid(oper_likelihood) THEN NVInvalid
      ELSE IF e.optype = "kNOT" THEN NVSub(truth, oper_likelihood)
      ELSE oper_likelihood
  ELSE IF e.kind = "BinOper" THEN
    LET lhs_likelihood == known(get_likelihood(e.left))
        rhs_likelihood == known(get_likelihood(e.right)) IN
      IF NVisInvalid(get_likelihood(e.left)) /\ NVisInvalid(get_likelihood(e.right)) THEN NVInvalid
      ELSE IF e.optype = "kOR" THEN
        NVSub(truth, NVMul(NVSub(truth, lhs_likelihood), NVSub(truth, rhs_likelihood)))
      ELSE IF e.optype = "kAND" THEN NVMul(lhs_likelihood, rhs_likelihood)
      ELSE NVHalf(NVAdd(lhs_likelihood, rhs_likelihood))
  ELSE NVInvalid

get_likelihood_OrAsSum(e) ==
  LET truth == NVValid(1, 1) IN
  IF e.kind = "LikelihoodExpr" THEN NVValid(e.likelihood[1], e.likelihood[2])
  ELSE IF e.kind = "UOper" THEN
    LET oper_likelihood == get_likelihood(e.operand) IN
      IF NVisInvalid(oper_likelihood) THEN NVInvalid
      ELSE IF e.optype = "kNOT" THEN NVSub(truth, oper_likelihood)
      ELSE oper_likelihood
  ELSE IF e.kind = "BinOper" THEN
    LET lhs_likelihood == get_likelihood(e.left)
        rhs_likelihood == get_likelihood(e.right) IN
      IF NVisInvalid(lhs_likelihood) /\ NVisInvalid(rhs_likelihood) THEN NVInvalid
      ELSE IF e.optype = "kOR" THEN NVAdd(lhs_likelihood, rhs_likelihood)
      ELSE IF e.optype = "kAND" THEN NVMul(lhs_likelihood, rhs_likelihood)
      ELSE NVHalf(NVAdd(lhs_likelihood, rhs_likelihood))
  ELSE NVInvalid

get_likelihood(e) ==
  LET truth == NVValid(1, 1) IN
  IF e.kind = "LikelihoodExpr" THEN NVValid(e.likelihood[1], e.likelihood[2])
  ELSE IF e.kind = "UOper" THEN
    LET oper_likelihood == get_likelihood(e.operand) IN
      IF NVisInvalid(oper_likelihood) THEN NVInvalid
      ELSE IF e.optype = "kNOT" THEN NVSub(truth, oper_likelihood)
      ELSE oper_likelihood
  ELSE IF e.kind = "BinOper" THEN
    LET lhs_likelihood == get_likelihood(e.left)
        rhs_likelihood == get_likelihood(e.right) IN
      IF NVisInvalid(lhs_likelihood) /\ NVisInvalid(rhs_likelihood) THEN NVInvalid
      ELSE IF e.optype = "kOR" THEN
        NVSub(truth, NVMul(NVSub(truth, lhs_likelihood), NVSub(truth, rhs_likelihood)))
      ELSE IF e.optype = "kAND" THEN NVMul(lhs_likelihood, rhs_likelihood)
      ELSE NVHalf(NVAdd(lhs_likelihood, rhs_likelihood))
  ELSE NVInvalid

-----------------------------------------------------------------------------
(* The expression objects of one execution unit, addressed by pointer *)
TInt == Ty("int32", TRUE)
TBool == Ty("bool", TRUE)
TText == Ty("text", TRUE)
TArr == Ty("array", TRUE)
IntCol(c) == ColumnVar(c, TInt)
IntLit(v) == Constant(Ty("int32", FALSE), FALSE, v)

Heap(p) ==
  CASE p = 1 -> UOper("kNOT", LikelihoodExpr(BinOper("kEQ", IntCol(1), IntLit(1), TBool), 19, 20), TBool)
    [] p = 2 -> LikeExpr(ColumnVar(2, TText), Constant(Ty("text", FALSE), FALSE, 7), FALSE)
    [] p = 3 -> LikelihoodExpr(BinOper("kLT", IntCol(1), IntLit(5), TBool), 10, 20)
    [] p = 4 -> BinOper("kDIVIDE", IntCol(1), IntLit(0), TInt)
    [] p = 5 -> LikelihoodExpr(
                  BinOper("kEQ", BinOper("kDIVIDE", IntCol(3), IntLit(0), TInt), IntLit(1), TBool),
                  1, 20)
    [] p = 6 -> RegexpExpr(ColumnVar(2, TText), Constant(Ty("text", FALSE), FALSE, 8))
    [] p = 7 -> FunctionOper(<<IntCol(1)>>, TBool)
    [] p = 8 -> BinOper("kEQ", IntCol(1), ColumnVar(4, TArr), TBool)
    [] OTHER -> BinOper("kGT", BinOper("kDIVIDE", IntCol(1), IntLit(2), TInt), IntLit(p), TBool)

Ptrs == 1..NumPtrs

SeqsUpTo(S, n) == UNION {[1..k -> S] : k \in 0..n}

-----------------------------------------------------------------------------
(* CodeGenerator::prioritizeQuals, one action per loop iteration *)
\* a lookup that never finds the qual
IsHoisted_Never(p, hoisted) == FALSE

IsHoisted(p, hoisted) == p \in hoisted

\* the short-circuit test without the unsafe-division conjunct
IsSelective_NoDivisionTest(p) == NVLess(get_likelihood(Heap(p)), 1, 10)

\* the test that makes a general qual the short-circuit point
IsSelective(p) ==
  NVLess(get_likelihood(Heap(p)), 1, 10) /\ ~contains_unsafe_division(Heap(p))

\* st = [primary, deferred, sc]: the two output vectors and the local flag
PQState(p, d, sc) == [primary |-> p, deferred |-> d, sc |-> sc]

\* the simple loop without the continue after a deferred qual
SimpleStepResult_DeferAndKeep(st, expr, hoisted) ==
  IF IsHoisted(expr, hoisted) THEN st
  ELSE IF should_defer_eval(Heap(expr))
    THEN [st EXCEPT !.deferred = Append(@, expr), !.primary = Append(@, expr)]
    ELSE [st EXCEPT !.primary = Append(@, expr)]

\* body of the loop over simple_quals
SimpleStepResult(st, expr, hoisted) ==
  IF IsHoisted(expr, hoisted) THEN st
  ELSE IF should_defer_eval(Heap(expr))
    THEN [st EXCEPT !.deferred = Append(@, expr)]
    ELSE [st EXCEPT !.primary = Append(@, expr)]

\* the loop body with the !short_circuit test dropped
GeneralStepResult_ManyPoints(st, expr, hoisted) ==
  IF IsHoisted(expr, hoisted) THEN st
  ELSE IF IsSelective(expr)
    THEN [st EXCEPT !.primary = Append(@, expr), !.sc = TRUE]
  ELSE IF st.sc \/ should_defer_eval(Heap(expr))
    THEN [st EXCEPT !.deferred = Append(@, expr)]
    ELSE [st EXCEPT !.primary = Append(@, expr)]

\* body of the loop over quals
GeneralStepResult(st, expr, hoisted) ==
  IF IsHoisted(expr, hoisted) THEN st
  ELSE IF IsSelective(expr) /\ ~st.sc
    THEN [st EXCEPT !.primary = Append(@, expr), !.sc = TRUE]
  ELSE IF st.sc \/ should_defer_eval(Heap(expr))
    THEN [st EXCEPT !.deferred = Append(@, expr)]
    ELSE [st EXCEPT !.primary = Append(@, expr)]

RECURSIVE FoldSimple(_, _, _)
FoldSimple(st, s, hoisted) ==
  IF s = <<>> THEN st ELSE FoldSimple(SimpleStepResult(st, Head(s), hoisted), Tail(s), hoisted)

RECURSIVE FoldGeneral(_, _, _)
FoldGeneral(st, s, hoisted) ==
  IF s = <<>> THEN st ELSE FoldGeneral(GeneralStepResult(st, Head(s), hoisted), Tail(s), hoisted)

\* the whole call on empty output vectors
PrioritizeQualsResult(simple, general, hoisted) ==
  FoldGeneral([FoldSimple(PQState(<<>>, <<>>, FALSE), simple, hoisted) EXCEPT !.sc = FALSE],
              general, hoisted)

PQCur == PQState(primary_quals, deferred_quals, short_circuit)

InitQuals ==
  /\ simple_quals \in SeqsUpTo(Ptrs, MaxSimple)
  /\ quals \in SeqsUpTo(Ptrs, MaxQuals)
  /\ hoisted_quals \in {h \in SUBSET Ptrs : Cardinality(h) <= MaxHoisted}
  /\ primary_quals = <<>>
  /\ deferred_quals = <<>>
  /\ short_circuit = FALSE
  /\ pq_pc = "simple"
  /\ pq_idx = 1
  /\ IdleCodegen
  /\ IdleAgg
  /\ IdleFn

SimpleQualStep ==
  /\ pq_pc = "simple"
  /\ pq_idx <= Len(simple_quals)
  /\ LET st == SimpleStepResult(PQCur, simple_quals[pq_idx], hoisted_quals) IN
       /\ primary_quals' = st.primary
       /\ deferred_quals' = st.deferred
  /\ pq_idx' = pq_idx + 1
  /\ UNCHANGED <<simple_quals, quals, hoisted_quals, short_circuit, pq_pc>>
  /\ UNCHANGED pqOthers

EnterGeneralLoop ==
  /\ pq_pc = "simple"
  /\ pq_idx > Len(simple_quals)
  /\ short_circuit' = FALSE
  /\ pq_pc' = "general"
  /\ pq_idx' = 1
  /\ UNCHANGED <<simple_quals, quals, hoisted_quals, primary_quals, deferred_quals>>
  /\ UNCHANGED pqOthers

GeneralQualStep ==
  /\ pq_pc = "general"
  /\ pq_idx <= Len(quals)
  /\ LET st == GeneralStepResult(PQCur, quals[pq_idx], hoisted_quals) IN
       /\ primary_quals' = st.primary
       /\ deferred_quals' = st.deferred
       /\ short_circuit' = st.sc
  /\ pq_idx' = pq_idx + 1
  /\ UNCHANGED <<simple_quals, quals, hoisted_quals, pq_pc>>
  /\ UNCHANGED pqOthers

PrioritizeQualsReturn ==
  /\ pq_pc = "general"
  /\ pq_idx > Len(quals)
  /\ pq_pc' = "done"
  /\ UNCHANGED <<simple_quals, quals, hoisted_quals, primary_quals, deferred_quals,
                 short_circuit, pq_idx>>
  /\ UNCHANGED pqOthers

NextQuals ==
  \/ SimpleQualStep
  \/ EnterGeneralLoop
  \/ GeneralQualStep
  \/ PrioritizeQualsReturn

SpecQuals == InitQuals /\ [][NextQuals]_vars

-----------------------------------------------------------------------------
(* Weight = NullableValue<uint64_t> *)
RECURSIVE get_weight(_, _)
get_weight_NoArraySurcharge(e, depth) ==
  IF e.kind = "LikeExpr" THEN NVValid(IF e.is_simple THEN 200 ELSE 1000, 1)
  ELSE IF e.kind = "RegexpExpr" THEN NVValid(2000, 1)
  ELSE IF e.kind = "UOper" THEN NVAdd(get_weight(e.operand, depth + 1), NVValid(1, 1))
  ELSE IF e.kind = "BinOper" THEN
    LET lhs_weight == get_weight(e.left, depth + 1)
        rhs_weight == get_weight(e.right, depth + 1)
    IN NVAdd(NVAdd(lhs_weight, rhs_weight), NVValid(1, 1))
  ELSE IF depth > 4 THEN NVValid(1, 1)
  ELSE NVInvalid

get_weight(e, depth) ==
  IF e.kind = "LikeExpr" THEN NVValid(IF e.is_simple THEN 200 ELSE 1000, 1)
  ELSE IF e.kind = "RegexpExpr" THEN NVValid(2000, 1)
  ELSE IF e.kind = "UOper" THEN NVAdd(get_weight(e.operand, depth + 1), NVValid(1, 1))
  ELSE IF e.kind = "BinOper" THEN
    LET lhs_weight == get_weight(e.left, depth + 1)
        rhs_weight0 == get_weight(e.right, depth + 1)
        rhs_weight == IF e.right.type.k = "array"
                        THEN NVAdd(rhs_weight0, NVValid(100, 1)) ELSE rhs_weight0
    IN NVAdd(NVAdd(lhs_weight, rhs_weight), NVValid(1, 1))
  ELSE IF depth > 4 THEN NVValid(1, 1)
  ELSE NVInvalid

-----------------------------------------------------------------------------
(* Logical expressions handed to codegenLogical *)
MaxDepth == 2       \* deepest nesting of AND/OR below the root

isLogic(e) == e.kind = "BinOper" /\ e.optype \in {"kAND", "kOR"}

\* boolean operands that are not themselves AND/OR; n is the nullability of the row
AtomLikely(n) ==
  LikelihoodExpr(BinOper("kEQ", ColumnVar(1, Ty("int32", n)), IntLit(1), Ty("bool", n)), 19, 20)
AtomUnlikely(n) ==
  LikelihoodExpr(BinOper("kLT", ColumnVar(2, Ty("int32", n)), IntLit(5), Ty("bool", n)), 1, 20)
AtomDivide(n) ==
  BinOper("kEQ", BinOper("kDIVIDE", ColumnVar(3, Ty("int32", n)), IntLit(0), Ty("int32", n)),
          IntLit(1), Ty("bool", n))
AtomLike(n) == LikeExpr(ColumnVar(4, Ty("text", n)), Constant(Ty("text", FALSE), FALSE, 7), FALSE)
Atoms(n) == {AtomLikely(n), AtomUnlikely(n), AtomDivide(n), AtomLike(n)}

RECURSIVE LogicExprs(_, _)
LogicExprs(d, n) ==
  IF d = 0 THEN Atoms(n)
  ELSE LET sub == LogicExprs(d - 1, n) IN
    Atoms(n) \cup
    {BinOper(op, x, y, Ty("bool", n)) : op \in {"kAND", "kOR"}, x \in sub, y \in Atoms(n)} \cup
    {BinOper(op, x, y, Ty("bool", n)) : op \in {"kAND", "kOR"}, x \in Atoms(n), y \in sub}

\* columns an expression reads
ColumnsOf(e) == {VisitAll(e)[i].col : i \in {j \in DOMAIN VisitAll(e) : VisitAll(e)[j].kind = "ColumnVar"}}

-----------------------------------------------------------------------------
(* codegenLogicalShortCircuit: which branch of the if-chain is taken *)
\* "rhs_div", "lhs_div": an unsafe division forces the short circuit
\* "likely", "likely_swap": the likelihood / weight heuristic asks for it
\* "none": return nullptr
ShortCircuitChoice_NoSwap(e) ==
  LET lhs == e.left
      rhs == e.right
  IN IF contains_unsafe_division(rhs) THEN "rhs_div"
     ELSE IF contains_unsafe_division(lhs) THEN "rhs_div"
     ELSE IF /\ \/ (e.optype = "kOR" /\ NVGreater(get_likelihood(lhs), 9, 10))
                \/ (e.optype = "kAND" /\ NVLess(get_likelihood(lhs), 1, 10))
             /\ NVGreater(get_weight(rhs, 0), 10, 1) THEN "likely"
     ELSE IF /\ \/ (e.optype = "kOR" /\ NVGreater(get_likelihood(rhs), 9, 10))
                \/ (e.optype = "kAND" /\ NVLess(get_likelihood(rhs), 1, 10))
             /\ NVGreater(get_weight(lhs, 0), 10, 1) THEN "likely_swap"
     ELSE "none"

ShortCircuitChoice(e) ==
  LET lhs == e.left
      rhs == e.right
  IN IF contains_unsafe_division(rhs) THEN "rhs_div"
     ELSE IF contains_unsafe_division(lhs) THEN "lhs_div"
     ELSE IF /\ \/ (e.optype = "kOR" /\ NVGreater(get_likelihood(lhs), 9, 10))
                \/ (e.optype = "kAND" /\ NVLess(get_likelihood(lhs), 1, 10))
             /\ NVGreater(get_weight(rhs, 0), 10, 1) THEN "likely"
     ELSE IF /\ \/ (e.optype = "kOR" /\ NVGreater(get_likelihood(rhs), 9, 10))
                \/ (e.optype = "kAND" /\ NVLess(get_likelihood(rhs), 1, 10))
             /\ NVGreater(get_weight(lhs, 0), 10, 1) THEN "likely_swap"
     ELSE "none"

Swaps(choice) == choice \in {"lhs_div", "likely_swap"}
\* lhs and rhs after the std::swap: lhs is generated first, rhs inside rhs_bb
GatingOperand(e) == IF Swaps(ShortCircuitChoice(e)) THEN e.right ELSE e.left
GatedOperand(e) == IF Swaps(ShortCircuitChoice(e)) THEN e.left ELSE e.right

-----------------------------------------------------------------------------
(* The generated code, as the value it computes *)
\* operand of a non-logical expression: its value is read from the row
IROperand(e) == [ir |-> "operand", expr |-> e]
\* result_phi of codegenLogicalShortCircuit: lhs_lv is generated in the block that
\* is current on entry, rhs_lv in rhs_bb
IRPhi(e, lhs_lv, rhs_lv) ==
  [ir |-> "phi", bin_oper |-> e, lhs_lv |-> lhs_lv, rhs_lv |-> rhs_lv]
\* result of the eager path of codegenLogical: both operands in the current block
IREager(e, lhs_lv, rhs_lv) ==
  [ir |-> "eager", bin_oper |-> e, lhs_lv |-> lhs_lv, rhs_lv |-> rhs_lv]

\* int8 encoding of a nullable boolean: inlineIntNull of the boolean type
NULL_BOOLEAN == -128
BoolValues(n) == IF n THEN {0, 1, NULL_BOOLEAN} ELSE {0, 1}
\* one row: the value every non-logical operand takes
RowValues(n) == [Atoms(n) -> BoolValues(n)]

\* runtime functions called by the eager nullable path
logical_and(lhs, rhs, null_val) ==
  IF lhs = null_val THEN (IF rhs = 0 THEN rhs ELSE null_val)
  ELSE IF rhs = null_val THEN (IF lhs = 0 THEN lhs ELSE null_val)
  ELSE IF lhs # 0 /\ rhs # 0 THEN 1 ELSE 0
logical_or(lhs, rhs, null_val) ==
  IF lhs = null_val THEN (IF rhs = 0 THEN null_val ELSE rhs)
  ELSE IF rhs = null_val THEN (IF lhs = 0 THEN null_val ELSE lhs)
  ELSE IF lhs # 0 \/ rhs # 0 THEN 1 ELSE 0

toBool(lv) == IF lv > 0 THEN 1 ELSE 0

\* value that reaches result_phi, with the gated operand evaluated only in rhs_bb
PhiValue(optype, nullable, lhs_lv, rhs_lv) ==
  LET cnst_lv == IF optype = "kOR" THEN 1 ELSE 0 IN
    IF nullable /\ lhs_lv = NULL_BOOLEAN THEN NULL_BOOLEAN     \* nullcheck_fail_bb
    ELSE IF lhs_lv = cnst_lv THEN cnst_lv                      \* sc_check_bb -> ret_bb
    ELSE IF nullable /\ rhs_lv = NULL_BOOLEAN THEN NULL_BOOLEAN \* rhs_bb -> nullcheck_fail_bb
    ELSE rhs_lv                                                \* rhs_bb -> ret_bb

\* value computed by the eager code of codegenLogical
EagerValue(optype, nullable, lhs_lv, rhs_lv) ==
  IF ~nullable
    THEN IF optype = "kAND"
           THEN (IF toBool(lhs_lv) = 1 /\ toBool(rhs_lv) = 1 THEN 1 ELSE 0)
           ELSE (IF toBool(lhs_lv) = 1 \/ toBool(rhs_lv) = 1 THEN 1 ELSE 0)
    ELSE IF optype = "kAND"
           THEN logical_and(lhs_lv, rhs_lv, NULL_BOOLEAN)
           ELSE logical_or(lhs_lv, rhs_lv, NULL_BOOLEAN)

\* running the generated code on one row
RECURSIVE Run(_, _)
Run(v, row) ==
  IF v.ir = "operand" THEN row[v.expr]
  ELSE IF v.ir = "phi"
    THEN PhiValue(v.bin_oper.optype, v.bin_oper.type.nullable,
                  Run(v.lhs_lv, row), Run(v.rhs_lv, row))
    ELSE EagerValue(v.bin_oper.optype, v.bin_oper.type.nullable,
                    Run(v.lhs_lv, row), Run(v.rhs_lv, row))

-----------------------------------------------------------------------------
(* codegen of a logical expression tree, one action per step of the recursion *)
Frame(e) == [expr |-> e, pc |-> "enter", lhs_lv |-> NoValue, anchor |-> {}]
Top == cg_stack[Len(cg_stack)]
Pop == SubSeq(cg_stack, 1, Len(cg_stack) - 1)
SetTop(f) == [cg_stack EXCEPT ![Len(cg_stack)] = f]
Running == cg_stack # <<>>
Returned == cg_ret # NoValue

InitCodegen ==
  /\ \E n \in BOOLEAN : cg_expr \in {e \in LogicExprs(MaxDepth, n) : isLogic(e)}
  /\ cg_stack = <<Frame(cg_expr)>>
  /\ fetch_cache \in {{}, {4}}
  /\ cg_entry_cache = fetch_cache
  /\ cg_ret = NoValue
  /\ IdleQuals
  /\ IdleAgg
  /\ IdleFn

\* CodeGenerator::codegen of an operand that is not AND/OR: the columns it reads
\* are decoded and the decodings enter the fetch cache
CodegenOperand ==
  /\ Running /\ ~Returned
  /\ Top.pc = "enter" /\ ~isLogic(Top.expr)
  /\ fetch_cache' = fetch_cache \cup ColumnsOf(Top.expr)
  /\ cg_ret' = IROperand(Top.expr)
  /\ cg_stack' = Pop
  /\ UNCHANGED <<cg_expr, cg_entry_cache>>
  /\ UNCHANGED cgOthers

\* codegenLogical calls codegenLogicalShortCircuit, which picks the operand order
\* and generates lhs
ShortCircuitEnter ==
  /\ Running /\ ~Returned
  /\ Top.pc = "enter" /\ isLogic(Top.expr)
  /\ ShortCircuitChoice(Top.expr) # "none"
  /\ cg_stack' = Append(SetTop([Top EXCEPT !.pc = "sc_lhs"]), Frame(GatingOperand(Top.expr)))
  /\ UNCHANGED <<cg_expr, fetch_cache, cg_entry_cache, cg_ret>>
  /\ UNCHANGED cgOthers

\* lhs is generated: FetchCacheAnchor anchor(cgen_state_), then rhs in rhs_bb
TakeFetchCacheAnchor ==
  /\ Running /\ Returned
  /\ Top.pc = "sc_lhs"
  /\ cg_stack' = Append(SetTop([Top EXCEPT !.pc = "sc_rhs", !.lhs_lv = cg_ret,
                                           !.anchor = fetch_cache]),
                        Frame(GatedOperand(Top.expr)))
  /\ cg_ret' = NoValue
  /\ UNCHANGED <<cg_expr, fetch_cache, cg_entry_cache>>
  /\ UNCHANGED cgOthers

\* the join without the restore of the saved cache
ShortCircuitJoin_NoRestore ==
  /\ Running /\ Returned
  /\ Top.pc = "sc_rhs"
  /\ cg_ret' = IRPhi(Top.expr, Top.lhs_lv, cg_ret)
  /\ cg_stack' = Pop
  /\ UNCHANGED <<cg_expr, cg_entry_cache, fetch_cache>>
  /\ UNCHANGED cgOthers

\* rhs is generated: build result_phi in ret_bb and return; ~FetchCacheAnchor
\* swaps the saved cache back
ShortCircuitJoin ==
  /\ Running /\ Returned
  /\ Top.pc = "sc_rhs"
  /\ cg_ret' = IRPhi(Top.expr, Top.lhs_lv, cg_ret)
  /\ fetch_cache' = Top.anchor
  /\ cg_stack' = Pop
  /\ UNCHANGED <<cg_expr, cg_entry_cache>>
  /\ UNCHANGED cgOthers

\* codegenLogicalShortCircuit returned nullptr: codegenLogical generates lhs
EagerEnter ==
  /\ Running /\ ~Returned
  /\ Top.pc = "enter" /\ isLogic(Top.expr)
  /\ ShortCircuitChoice(Top.expr) = "none"
  /\ cg_stack' = Append(SetTop([Top EXCEPT !.pc = "eager_lhs"]), Frame(Top.expr.left))
  /\ UNCHANGED <<cg_expr, fetch_cache, cg_entry_cache, cg_ret>>
  /\ UNCHANGED cgOthers

\* ... then rhs, in the same block
EagerCodegenRhs ==
  /\ Running /\ Returned
  /\ Top.pc = "eager_lhs"
  /\ cg_stack' = Append(SetTop([Top EXCEPT !.pc = "eager_rhs", !.lhs_lv = cg_ret]),
                        Frame(Top.expr.right))
  /\ cg_ret' = NoValue
  /\ UNCHANGED <<cg_expr, fetch_cache, cg_entry_cache>>
  /\ UNCHANGED cgOthers

\* ... and emits And/Or or the call of logical_and/logical_or
EagerEmit ==
  /\ Running /\ Returned
  /\ Top.pc = "eager_rhs"
  /\ cg_ret' = IREager(Top.expr, Top.lhs_lv, cg_ret)
  /\ cg_stack' = Pop
  /\ UNCHANGED <<cg_expr, fetch_cache, cg_entry_cache>>
  /\ UNCHANGED cgOthers

NextCodegen ==
  \/ CodegenOperand
  \/ ShortCircuitEnter
  \/ TakeFetchCacheAnchor
  \/ ShortCircuitJoin
  \/ EagerEnter
  \/ EagerCodegenRhs
  \/ EagerEmit

SpecCodegen == InitCodegen /\ [][NextCodegen]_vars

-----------------------------------------------------------------------------
(* 64-bit values: int64_t is the pair <<high word, low word>> of two's-complement *)
(* 32-bit words, so that no value leaves the 32-bit range of the checker          *)
INT8_MAX == 127
INT8_MIN == -128
INT16_MAX == 32767
INT16_MIN == -32768
INT32_MAX == 2147483647
INT32_MIN == -2147483647 - 1
\* conversion int32_t -> int64_t of a return statement: sign extension
FromInt32(x) == <<IF x < 0 THEN -1 ELSE 0, x>>
INT64_MAX == <<INT32_MAX, -1>>
INT64_MIN == <<INT32_MIN, 0>>
Zero64 == FromInt32(0)

\* floating-point values that occur, by name, and their IEEE-754 bit patterns
\* *reinterpret_cast<const int32_t*>(&f)
FloatBits(f) ==
  CASE f = "0.f" -> 0
    [] f = "FLT_MAX" -> 2139095039          \* 0x7F7FFFFF
    [] f = "-FLT_MAX" -> -8388609           \* 0xFF7FFFFF
    [] f = "FLT_MIN" -> 8388608             \* 0x00800000
\* *reinterpret_cast<const int64_t*>(&d)
DoubleBits(d) ==
  CASE d = "0." -> <<0, 0>>
    [] d = "DBL_MAX" -> <<2146435071, -1>>  \* 0x7FEFFFFFFFFFFFFF
    [] d = "-DBL_MAX" -> <<-1048577, -1>>   \* 0xFFEFFFFFFFFFFFFF
    [] d = "DBL_MIN" -> <<1048576, 0>>      \* 0x0010000000000000
    [] d = "(double)FLT_MIN" -> <<940572672, 0>>  \* 0x3810000000000000
\* static_cast<float>(double)
DoubleToFloat(d) ==
  CASE d = "(double)FLT_MIN" -> "FLT_MIN"
    [] d = "DBL_MIN" -> "0.f"
    [] d = "0." -> "0.f"

-----------------------------------------------------------------------------
(* Types of aggregate targets *)
isFloatingPoint(ty) == ty.k \in {"fp32", "fp64"}
isInteger(ty) == ty.k \in {"int8", "int16", "int32", "int64"}
isExtDictionary(ty) == ty.k = "dict"
isString(ty) == ty.k = "text"
isArray(ty) == ty.k = "array"
isFp32(ty) == ty.k = "fp32"
withNullable(ty, n) == [ty EXCEPT !.nullable = n]
\* Type::size()
TypeSize(ty) ==
  CASE ty.k \in {"int8", "bool"} -> 1
    [] ty.k = "int16" -> 2
    [] ty.k \in {"int32", "fp32", "dict"} -> 4
    [] ty.k \in {"int64", "fp64"} -> 8
    [] OTHER -> -1
canonicalSize(ty) == TypeSize(ty)
get_bit_width(ty) == IF TypeSize(ty) < 0 THEN 32 ELSE TypeSize(ty) * 8
compact_byte_width(qw, low_bound) == IF qw > low_bound THEN qw ELSE low_bound
\* null sentinels
inline_int_null_value(ty) ==
  CASE TypeSize(ty) = 1 -> FromInt32(INT8_MIN)
    [] TypeSize(ty) = 2 -> FromInt32(INT16_MIN)
    [] TypeSize(ty) = 4 -> FromInt32(INT32_MIN)
    [] OTHER -> INT64_MIN
\* NULL_FLOAT is FLT_MIN and NULL_DOUBLE is DBL_MIN; the function returns a double
inline_fp_null_value(ty) == IF ty.k = "fp32" THEN "(double)FLT_MIN" ELSE "DBL_MIN"

-----------------------------------------------------------------------------
(* get_agg_initial_val *)
Ok(v) == [status |-> "ok", value |-> v]
Abort == [status |-> "abort"]

\* MIN with the limits of the 8-byte case used for every width above 2
AggMin_Wide(ty, byte_width) ==
  CASE byte_width = 1 ->
         IF isFloatingPoint(ty) THEN Abort
         ELSE Ok(IF ~ty.nullable THEN FromInt32(INT8_MAX) ELSE inline_int_null_value(ty))
    [] byte_width = 2 ->
         IF isFloatingPoint(ty) THEN Abort
         ELSE Ok(IF ~ty.nullable THEN FromInt32(INT16_MAX) ELSE inline_int_null_value(ty))
    [] byte_width \in {4, 8} ->
         Ok(IF isFloatingPoint(ty)
              THEN (IF ~ty.nullable THEN DoubleBits("DBL_MAX")
                    ELSE DoubleBits(inline_fp_null_value(ty)))
              ELSE (IF ~ty.nullable THEN INT64_MAX ELSE inline_int_null_value(ty)))
    [] OTHER -> Abort

AggMin(ty, byte_width) ==
  CASE byte_width = 1 ->
         IF isFloatingPoint(ty) THEN Abort
         ELSE Ok(IF ~ty.nullable THEN FromInt32(INT8_MAX) ELSE inline_int_null_value(ty))
    [] byte_width = 2 ->
         IF isFloatingPoint(ty) THEN Abort
         ELSE Ok(IF ~ty.nullable THEN FromInt32(INT16_MAX) ELSE inline_int_null_value(ty))
    [] byte_width = 4 ->
         LET max_float == "FLT_MAX"
             null_float == IF isFloatingPoint(ty)
                             THEN DoubleToFloat(inline_fp_null_value(ty)) ELSE "0.f"
         IN Ok(IF isFloatingPoint(ty)
                 THEN (IF ~ty.nullable THEN FromInt32(FloatBits(max_float))
                       ELSE FromInt32(FloatBits(null_float)))
                 ELSE (IF ~ty.nullable THEN FromInt32(INT32_MAX) ELSE inline_int_null_value(ty)))
    [] byte_width = 8 ->
         LET max_double == "DBL_MAX"
             null_double == IF isFloatingPoint(ty) THEN inline_fp_null_value(ty) ELSE "0."
         IN Ok(IF isFloatingPoint(ty)
                 THEN (IF ~ty.nullable THEN DoubleBits(max_double) ELSE DoubleBits(null_double))
                 ELSE (IF ~ty.nullable THEN INT64_MAX ELSE inline_int_null_value(ty)))
    [] OTHER -> Abort

AggMax(ty, byte_width) ==
  CASE byte_width = 1 ->
         IF isFloatingPoint(ty) THEN Abort
         ELSE Ok(IF ~ty.nullable THEN FromInt32(INT8_MIN) ELSE inline_int_null_value(ty))
    [] byte_width = 2 ->
         IF isFloatingPoint(ty) THEN Abort
         ELSE Ok(IF ~ty.nullable THEN FromInt32(INT16_MIN) ELSE inline_int_null_value(ty))
    [] byte_width = 4 ->
         LET min_float == "-FLT_MAX"
             null_float == IF isFloatingPoint(ty)
                             THEN DoubleToFloat(inline_fp_null_value(ty)) ELSE "0.f"
         IN Ok(IF isFloatingPoint(ty)
                 THEN (IF ~ty.nullable THEN FromInt32(FloatBits(min_float))
                       ELSE FromInt32(FloatBits(null_float)))
                 ELSE (IF ~ty.nullable THEN FromInt32(INT32_MIN) ELSE inline_int_null_value(ty)))
    [] byte_width = 8 ->
         LET min_double == "-DBL_MAX"
             null_double == IF isFloatingPoint(ty) THEN inline_fp_null_value(ty) ELSE "0."
         IN Ok(IF isFloatingPoint(ty)
                 THEN (IF ~ty.nullable THEN DoubleBits(min_double) ELSE DoubleBits(null_double))
                 ELSE (IF ~ty.nullable THEN INT64_MIN ELSE inline_int_null_value(ty)))
    [] OTHER -> Abort

\* SUM that starts at zero whatever the nullability
AggSum_AlwaysZero(ty, byte_width) ==
  CASE byte_width = 4 -> Ok(IF isFloatingPoint(ty) THEN FromInt32(FloatBits("0.f")) ELSE Zero64)
    [] byte_width = 8 -> Ok(IF isFloatingPoint(ty) THEN DoubleBits("0.") ELSE Zero64)
    [] OTHER -> Abort

AggSum(ty, byte_width) ==
  IF ty.nullable
    THEN IF isFloatingPoint(ty)
           THEN CASE byte_width = 4 ->
                       Ok(FromInt32(FloatBits(DoubleToFloat(inline_fp_null_value(ty)))))
                  [] byte_width = 8 -> Ok(DoubleBits(inline_fp_null_value(ty)))
                  [] OTHER -> Abort
           ELSE Ok(inline_int_null_value(ty))
    ELSE CASE byte_width = 4 ->
                Ok(IF isFloatingPoint(ty) THEN FromInt32(FloatBits("0.f")) ELSE Zero64)
           [] byte_width = 8 ->
                Ok(IF isFloatingPoint(ty) THEN DoubleBits("0.") ELSE Zero64)
           [] OTHER -> Abort

\* the width of the slot the value is written to
slot_byte_width(ty, enable_compaction, min_byte_width_to_compact) ==
  IF enable_compaction
    THEN compact_byte_width(get_bit_width(ty) \div 8, min_byte_width_to_compact)
    ELSE 8

get_agg_initial_val(agg, ty, enable_compaction, min_byte_width_to_compact) ==
  LET byte_width == slot_byte_width(ty, enable_compaction, min_byte_width_to_compact)
  IN
    IF (isString(ty) \/ isExtDictionary(ty)) /\ agg \notin {"kSINGLE_VALUE", "kSAMPLE"} THEN Abort
    ELSE IF ~(canonicalSize(ty) < 0 \/ byte_width >= canonicalSize(ty)) THEN Abort
    ELSE CASE agg = "kSUM" -> AggSum(ty, byte_width)
           [] agg \in {"kAVG", "kCOUNT", "kAPPROX_COUNT_DISTINCT"} -> Ok(Zero64)
           [] agg = "kAPPROX_QUANTILE" -> Ok(Zero64)
           [] agg = "kMIN" -> AggMin(ty, byte_width)
           [] agg \in {"kSINGLE_VALUE", "kSAMPLE", "kMAX"} -> AggMax(ty, byte_width)
           [] OTHER -> Abort

-----------------------------------------------------------------------------
(* TargetInfo *)
NoType == [k |-> "none", nullable |-> FALSE]
AggExpr(kind, arg, distinct, ty) ==
  [kind |-> "AggExpr", aggType |-> kind, arg |-> arg, is_distinct |-> distinct, type |-> ty]
NoArg == [kind |-> "none"]

TargetInfo(is_agg, agg_kind, ty, agg_arg_type, skip_null_val, is_distinct) ==
  [is_agg |-> is_agg, agg_kind |-> agg_kind, type |-> ty, agg_arg_type |-> agg_arg_type,
   skip_null_val |-> skip_null_val, is_distinct |-> is_distinct]

is_agg_domain_range_equivalent(agg_kind) ==
  agg_kind \in {"kMIN", "kMAX", "kSINGLE_VALUE", "kSAMPLE"}

\* Type::canonicalize keeps the kind and the nullability of the types used here
canonicalize(ty) == [k |-> ty.k, nullable |-> ty.nullable]

get_target_info(target_expr, bigint_count) ==
  LET nullable == target_expr.type.nullable IN
  IF target_expr.kind # "AggExpr"
    THEN TargetInfo(FALSE, "kMIN", canonicalize(target_expr.type), NoType, FALSE, FALSE)
  ELSE IF target_expr.arg = NoArg
    THEN TargetInfo(TRUE, "kCOUNT", Ty(IF bigint_count THEN "int64" ELSE "int32", nullable),
                    NoType, FALSE, FALSE)
  ELSE
    LET agg_type == target_expr.aggType
        agg_arg_type == target_expr.arg.type
        is_distinct == IF agg_type = "kCOUNT" THEN target_expr.is_distinct ELSE FALSE
    IN IF agg_type = "kAVG"
         THEN TargetInfo(TRUE, agg_type,
                         IF isInteger(agg_arg_type) THEN Ty("int64", agg_arg_type.nullable)
                         ELSE agg_arg_type,
                         agg_arg_type, agg_arg_type.nullable, is_distinct)
         ELSE TargetInfo(TRUE, agg_type,
                         IF agg_type = "kCOUNT"
                           THEN Ty(IF is_distinct \/ bigint_count THEN "int64" ELSE "int32", nullable)
                           ELSE target_expr.type,
                         agg_arg_type,
                         IF agg_type = "kCOUNT" /\ (isString(agg_arg_type) \/ isArray(agg_arg_type))
                           THEN FALSE ELSE agg_arg_type.nullable,
                         is_distinct)

takes_float_argument(target_info) ==
  /\ target_info.is_agg
  /\ target_info.agg_kind \in {"kAVG", "kSUM", "kMIN", "kMAX", "kSINGLE_VALUE"}
  /\ isFp32(target_info.agg_arg_type)

get_compact_type(target) ==
  IF ~target.is_agg THEN target.type
  ELSE IF target.agg_arg_type = NoType THEN target.type
  ELSE IF is_agg_domain_range_equivalent(target.agg_kind) THEN target.agg_arg_type
  ELSE withNullable(target.type, target.agg_arg_type.nullable)

-----------------------------------------------------------------------------
(* init_agg_val_vec(const std::vector<TargetInfo>&, const QueryMemoryDescriptor&) *)
\* the query memory descriptor, a read-only oracle
QueryMemoryDescriptor(group_by, compact, padded, logical) ==
  [is_group_by |-> group_by, compact_byte_width |-> compact,
   padded_slot_width_bytes |-> padded, logical_sized_columns_allowed |-> logical]
getSlotCount(qmd) == Len(qmd.padded_slot_width_bytes)
getPaddedSlotWidthBytes(qmd, idx) == qmd.padded_slot_width_bytes[idx + 1]

\* the type whose initial value is computed: forced nullable without GROUP BY
InitType_KeepNullability(agg_info, qmd) == get_compact_type(agg_info)

InitType(agg_info, qmd) ==
  IF ~qmd.is_group_by THEN withNullable(get_compact_type(agg_info), TRUE)
  ELSE get_compact_type(agg_info)

\* one iteration of the loop: the values it appends and by how much it advances
\* agg_col_idx, or Abort
TargetInitVals(agg_info, agg_col_idx, qmd) ==
  IF ~(agg_col_idx < getSlotCount(qmd)) THEN Abort
  ELSE IF ~agg_info.is_agg \/ agg_info.agg_kind = "kSAMPLE" THEN
    IF agg_info.agg_kind = "kSAMPLE" /\ isExtDictionary(agg_info.type)
      THEN LET v == get_agg_initial_val(agg_info.agg_kind, agg_info.type, qmd.is_group_by,
                                        qmd.compact_byte_width)
           IN IF v = Abort THEN Abort ELSE [status |-> "ok", vals |-> <<v.value>>, slots |-> 1]
      ELSE [status |-> "ok",
            vals |-> (IF getPaddedSlotWidthBytes(qmd, agg_col_idx) > 0 THEN <<Zero64>> ELSE <<>>)
                     \o (IF isArray(agg_info.type) \/ isString(agg_info.type)
                           THEN <<Zero64>> ELSE <<>>),
            slots |-> 1]
  ELSE IF ~(getPaddedSlotWidthBytes(qmd, agg_col_idx) > 0) THEN Abort
  ELSE
    LET float_argument_input == takes_float_argument(agg_info)
        chosen_bytes == IF qmd.logical_sized_columns_allowed
                          THEN getPaddedSlotWidthBytes(qmd, agg_col_idx)
                          ELSE qmd.compact_byte_width
        v == get_agg_initial_val(agg_info.agg_kind, InitType(agg_info, qmd),
                                 qmd.is_group_by \/ float_argument_input,
                                 IF float_argument_input THEN 4 ELSE chosen_bytes)
    IN IF v = Abort THEN Abort
       ELSE IF agg_info.agg_kind = "kAVG"
         THEN [status |-> "ok", vals |-> <<v.value, Zero64>>, slots |-> 2]
         ELSE [status |-> "ok", vals |-> <<v.value>>, slots |-> 1]

RECURSIVE InitAggValLoop(_, _, _, _, _)
InitAggValLoop(targets, target_idx, agg_col_idx, agg_init_vals, qmd) ==
  IF target_idx > Len(targets) THEN Ok(agg_init_vals)
  ELSE LET r == TargetInitVals(targets[target_idx], agg_col_idx, qmd) IN
    IF r = Abort THEN Abort
    ELSE InitAggValLoop(targets, target_idx + 1, agg_col_idx + r.slots,
                        agg_init_vals \o r.vals, qmd)

\* the vector without the count slot of a trailing AVG
init_agg_val_vec_NoCountSlot(targets, qmd) ==
  LET r == InitAggValLoop(targets, 1, 0, <<>>, qmd) IN
  IF r = Abort \/ targets = <<>> THEN r
  ELSE IF targets[Len(targets)].is_agg /\ targets[Len(targets)].agg_kind = "kAVG"
    THEN Ok(SubSeq(r.value, 1, Len(r.value) - 1))
    ELSE r

init_agg_val_vec(targets, qmd) == InitAggValLoop(targets, 1, 0, <<>>, qmd)

-----------------------------------------------------------------------------
(* init_agg_val_vec(const std::vector<Expr*>&, quals, const QueryMemoryDescriptor&, bigint_count) *)
set_compact_type(target, new_type) ==
  IF target.is_agg /\ (target.agg_kind # "kCOUNT" \/ target.agg_arg_type # NoType)
    THEN [target EXCEPT !.agg_arg_type = new_type]
    ELSE [target EXCEPT !.type = new_type]

set_notnull(target, not_null) ==
  set_compact_type([target EXCEPT !.skip_null_val = ~not_null],
                   withNullable(get_compact_type(target), ~not_null))

agg_arg(expr) == IF expr.kind = "AggExpr" THEN expr.arg ELSE NoArg

\* one qual of the scan of constrained_not_null: does it constrain expr?
QualConstrainsNotNull(qual, expr) ==
  IF qual.kind # "UOper" THEN FALSE
  ELSE LET is_negated == qual.optype = "kNOT"
           uoper == IF is_negated THEN qual.operand ELSE qual
       IN /\ uoper.kind = "UOper"
          /\ uoper.optype = "kISNOTNULL" \/ (is_negated /\ uoper.optype = "kISNULL")
          /\ uoper.operand = expr

\* a scan that never finds a constraining qual
constrained_not_null_Never(expr, agg_quals) == FALSE

constrained_not_null(expr, agg_quals) ==
  \E i \in DOMAIN agg_quals : QualConstrainsNotNull(agg_quals[i], expr)

\* the query description type travels with the descriptor
WithQueryDescriptionType(qmd, t) ==
  [is_group_by |-> qmd.is_group_by, compact_byte_width |-> qmd.compact_byte_width,
   padded_slot_width_bytes |-> qmd.padded_slot_width_bytes,
   logical_sized_columns_allowed |-> qmd.logical_sized_columns_allowed,
   query_desc_type |-> t]
getQueryDescriptionType(qmd) == qmd.query_desc_type

NullableAggKinds == {"kMIN", "kMAX", "kSUM", "kAVG", "kAPPROX_QUANTILE"}

\* the non-group-by rule left out: only the qualifier scan decides
ForcedTargetInfo_QualsFirst(target_expr, agg_quals, qmd, bigint_count) ==
  LET target == get_target_info(target_expr, bigint_count)
      arg_expr == agg_arg(target_expr)
  IN IF arg_expr = NoArg THEN target
     ELSE IF constrained_not_null(arg_expr, agg_quals) THEN set_notnull(target, TRUE)
     ELSE target

\* the loop body: the TargetInfo pushed for one target expression
ForcedTargetInfo(target_expr, agg_quals, qmd, bigint_count) ==
  LET target == get_target_info(target_expr, bigint_count)
      arg_expr == agg_arg(target_expr)
  IN IF arg_expr = NoArg THEN target
     ELSE IF /\ getQueryDescriptionType(qmd) = "NonGroupedAggregate"
             /\ target.is_agg
             /\ target.agg_kind \in NullableAggKinds
       THEN set_notnull(target, FALSE)
     ELSE IF constrained_not_null(arg_expr, agg_quals) THEN set_notnull(target, TRUE)
     ELSE target

\* target_idx and agg_col_idx advance together and the loop stops at the slot count
ForcedTargetInfos(targets, agg_quals, qmd, bigint_count) ==
  LET n == IF Len(targets) < getSlotCount(qmd) THEN Len(targets) ELSE getSlotCount(qmd)
  IN [i \in 1..n |-> ForcedTargetInfo(targets[i], agg_quals, qmd, bigint_count)]

\* the returned vector, or the abort, together with the local target_infos
init_agg_val_vec_exprs(targets, agg_quals, qmd, bigint_count) ==
  LET target_infos == ForcedTargetInfos(targets, agg_quals, qmd, bigint_count)
      r == init_agg_val_vec(target_infos, qmd)
  IN [status |-> r.status, value |-> IF r = Abort THEN <<>> ELSE r.value,
      target_infos |-> target_infos]

-----------------------------------------------------------------------------
(* Calls of the aggregate initial-value resolver *)
MaxTargets == 1     \* longest target list

SQLAgg == {"kAVG", "kMIN", "kMAX", "kSUM", "kCOUNT", "kAPPROX_COUNT_DISTINCT",
           "kAPPROX_QUANTILE", "kSAMPLE", "kSINGLE_VALUE"}
ScalarKinds == {"int8", "int16", "int32", "int64", "fp32", "fp64", "dict"}
ArgKinds == {"int16", "int32", "fp32", "fp64"}
ByteWidths == {1, 2, 4, 8}
CompactWidths == {4, 8}
PaddedWidths == {0, 2, 4, 8}

\* the result type the planner gives an aggregate
AggResultType(kind, argty) ==
  CASE kind = "kSUM" -> IF isInteger(argty) THEN Ty("int64", argty.nullable) ELSE argty
    [] kind = "kAVG" -> Ty("fp64", argty.nullable)
    [] kind = "kAPPROX_QUANTILE" -> Ty("fp64", argty.nullable)
    [] kind = "kCOUNT" -> Ty("int32", FALSE)
    [] kind = "kAPPROX_COUNT_DISTINCT" -> Ty("int64", FALSE)
    [] OTHER -> argty

TargetExprs ==
  {AggExpr(kind, ColumnVar(1, Ty(k, n)), FALSE, AggResultType(kind, Ty(k, n))) :
      kind \in SQLAgg, k \in ArgKinds, n \in BOOLEAN}
  \cup {AggExpr("kSAMPLE", ColumnVar(2, Ty("dict", n)), FALSE, Ty("dict", n)) : n \in BOOLEAN}
  \cup {AggExpr("kCOUNT", NoArg, FALSE, Ty("int32", FALSE))}
  \cup {ColumnVar(3, Ty(k, TRUE)) : k \in {"int32", "text", "array"}}

QueryMemoryDescriptors(slots) ==
  {QueryMemoryDescriptor(g, c, [i \in 1..n |-> w], l) :
      g \in BOOLEAN, c \in CompactWidths, n \in 1..slots, w \in PaddedWidths, l \in BOOLEAN}

\* a descriptor without group columns describes a non-grouped aggregate
QueryDescriptionTypes(qmd) ==
  IF qmd.is_group_by THEN {"GroupByPerfectHash"} ELSE {"NonGroupedAggregate"}
MaxAggQuals == 1    \* longest qualifier list of an aggregate query

\* target expressions of the calls that carry qualifiers
ExprTargets ==
  {t \in TargetExprs :
     t.kind = "AggExpr" =>
       (t.arg = NoArg \/ t.arg.type \in {Ty("int32", TRUE), Ty("int32", FALSE), Ty("fp32", TRUE)})}

\* null tests on the aggregate arguments, and quals that test nothing of them
AggQuals(targets) ==
  LET cols == {targets[i].arg : i \in {j \in DOMAIN targets :
                                         targets[j].kind = "AggExpr" /\ targets[j].arg # NoArg}}
      other == ColumnVar(5, Ty("int32", TRUE))
  IN UNION {{UOper("kISNOTNULL", c, Ty("bool", FALSE)),
             UOper("kISNULL", c, Ty("bool", FALSE)),
             UOper("kNOT", UOper("kISNULL", c, Ty("bool", FALSE)), Ty("bool", FALSE)),
             UOper("kNOT", UOper("kISNOTNULL", c, Ty("bool", FALSE)), Ty("bool", FALSE))} :
            c \in cols}
     \cup {UOper("kISNOTNULL", other, Ty("bool", FALSE)),
           UOper("kNOT", BinOper("kEQ", other, other, Ty("bool", TRUE)), Ty("bool", TRUE)),
           BinOper("kEQ", other, other, Ty("bool", TRUE))}

InitAgg ==
  /\ \/ /\ agg_call = "get_agg_initial_val"
        /\ agg_args \in [agg : SQLAgg, type : {Ty(k, n) : k \in ScalarKinds, n \in BOOLEAN},
                         enable_compaction : BOOLEAN, min_byte_width_to_compact : ByteWidths]
     \/ /\ agg_call = "init_agg_val_vec"
        /\ agg_args \in [target_exprs : SeqsUpTo(TargetExprs, MaxTargets) \ {<<>>},
                         bigint_count : {TRUE},
                         query_mem_desc : QueryMemoryDescriptors(MaxTargets + 1)]
     \/ /\ agg_call = "init_agg_val_vec_exprs"
        /\ \E targets \in SeqsUpTo(ExprTargets, MaxTargets) \ {<<>>} :
             agg_args \in [targets : {targets},
                           quals : SeqsUpTo(AggQuals(targets), MaxAggQuals),
                           bigint_count : {FALSE},
                           query_mem_desc : UNION {{WithQueryDescriptionType(q, t) :
                                                      t \in QueryDescriptionTypes(q)} :
                                                    q \in QueryMemoryDescriptors(MaxTargets + 1)}]
  /\ agg_result = NoValue
  /\ IdleQuals
  /\ IdleCodegen
  /\ IdleFn

GetAggInitialVal ==
  /\ agg_call = "get_agg_initial_val"
  /\ agg_result' = get_agg_initial_val(agg_args.agg, agg_args.type, agg_args.enable_compaction,
                                       agg_args.min_byte_width_to_compact)
  /\ agg_call' = "done_get_agg_initial_val"
  /\ UNCHANGED agg_args
  /\ UNCHANGED aggOthers

TargetInfos(args) ==
  [i \in DOMAIN args.target_exprs |-> get_target_info(args.target_exprs[i], args.bigint_count)]

InitAggValVec ==
  /\ agg_call = "init_agg_val_vec"
  /\ agg_result' = init_agg_val_vec(TargetInfos(agg_args), agg_args.query_mem_desc)
  /\ agg_call' = "done_init_agg_val_vec"
  /\ UNCHANGED agg_args
  /\ UNCHANGED aggOthers

InitAggValVecExprs ==
  /\ agg_call = "init_agg_val_vec_exprs"
  /\ agg_result' = init_agg_val_vec_exprs(agg_args.targets, agg_args.quals,
                                          agg_args.query_mem_desc, agg_args.bigint_count)
  /\ agg_call' = "done_init_agg_val_vec_exprs"
  /\ UNCHANGED agg_args
  /\ UNCHANGED aggOthers

NextAgg ==
  \/ GetAggInitialVal
  \/ InitAggValVec
  \/ InitAggValVecExprs

SpecAgg == InitAgg /\ [][NextAgg]_vars

-----------------------------------------------------------------------------
(* hdk::ir::Type instances of the interning context, and IR/TypeUtils.cpp *)
MaxDictId == 2      \* dictionary ids 1..MaxDictId

NoElem == [id |-> "none"]
TimeUnits == {"kDay", "kSecond", "kMilli"}
\* an interned type is identified by its attributes
IRType(id, size, nullable, unit, elem, dict_id) ==
  [id |-> id, size |-> size, nullable |-> nullable, unit |-> unit, elemType |-> elem,
   dictId |-> dict_id]
ScalarType(id, size, nullable) == IRType(id, size, nullable, "none", NoElem, 0)

\* Context factory methods
extDict(elem_type, dict_id, size) ==
  IRType("kExtDictionary", size, elem_type.nullable, "none", elem_type, dict_id)
date64(unit, nullable) == IRType("kDate", 8, nullable, unit, NoElem, 0)
time64(unit, nullable) == IRType("kTime", 8, nullable, unit, NoElem, 0)
interval64(unit, nullable) == IRType("kInterval", 8, nullable, unit, NoElem, 0)
arrayVarLen(elem_type, offs_size, nullable) ==
  IRType("kVarLenArray", offs_size, nullable, "none", elem_type, 0)
arrayFixed(num_elems, elem_type, nullable) ==
  IRType("kFixedLenArray", num_elems * elem_type.size, nullable, "none", elem_type, 0)

\* type->as<TimestampType>() on an interval type is a cast to a class the object
\* is not an instance of: the process dies on the null pointer, or the unit
\* and the nullability are read through the mistyped pointer
IntervalCastOutcomes ==
  {[crash |-> TRUE, unit |-> "none", nullable |-> FALSE]}
  \cup [crash : {FALSE}, unit : TimeUnits, nullable : BOOLEAN]

\* logicalType that maps a date to the other of two units
logicalType_DateFlip(type, cast) ==
  IF type.id = "kDate"
    THEN Ok(date64(IF type.unit = "kSecond" THEN "kMilli" ELSE "kSecond", type.nullable))
    ELSE Ok(type)

logicalType(type, cast) ==
  IF type.id = "kExtDictionary" /\ type.size # 4
    THEN Ok(extDict(type.elemType, type.dictId, 4))
  ELSE IF type.id = "kDate"
    THEN IF type.unit # "kSecond" \/ type.size # 8
           THEN Ok(date64("kSecond", type.nullable))
           ELSE Ok(type)
  ELSE IF type.id = "kTime" /\ type.size # 8 THEN Ok(time64(type.unit, type.nullable))
  ELSE IF type.id = "kInterval" /\ type.size # 8
    THEN IF cast.crash THEN Abort ELSE Ok(interval64(cast.unit, cast.nullable))
  ELSE IF type.id = "kFixedLenArray" THEN Ok(arrayVarLen(type.elemType, 4, type.nullable))
  ELSE Ok(type)

\* logicalSize that answers the declared size for every kind
logicalSize_Declared(type) ==
  IF type.id = "undefined" THEN Abort ELSE Ok(type.size)

logicalSize(type) ==
  CASE type.id \in {"kNull", "kBoolean", "kInteger", "kDecimal", "kFloatingPoint",
                    "kFixedLenArray", "kColumn", "kColumnList", "kVarLenArray", "kVarChar",
                    "kText"} -> Ok(type.size)
    [] type.id = "kExtDictionary" -> Ok(4)
    [] type.id \in {"kTimestamp", "kTime", "kDate", "kInterval"} -> Ok(8)
    [] OTHER -> Abort

\* the types the calls are made with
TextTypes == {ScalarType("kText", 0, n) : n \in BOOLEAN}
NumericTypes ==
  {ScalarType("kInteger", sz, n) : sz \in {1, 2, 4, 8}, n \in BOOLEAN}
  \cup {ScalarType("kFloatingPoint", sz, n) : sz \in {4, 8}, n \in BOOLEAN}
  \cup {ScalarType("kDecimal", sz, n) : sz \in {2, 4, 8}, n \in BOOLEAN}
  \cup {ScalarType("kBoolean", 1, n) : n \in BOOLEAN}
TemporalTypes ==
  {IRType(id, sz, n, u, NoElem, 0) :
     id \in {"kDate", "kTime", "kInterval"}, sz \in {2, 4, 8}, n \in BOOLEAN, u \in TimeUnits}
  \cup {IRType("kTimestamp", 8, n, u, NoElem, 0) : n \in BOOLEAN, u \in TimeUnits}
DictTypes ==
  {extDict(e, d, sz) : e \in TextTypes, d \in 1..MaxDictId, sz \in {1, 2, 4}}
ArrayTypes ==
  {arrayFixed(k, e, n) : k \in {2, 3}, e \in {ScalarType("kInteger", 4, TRUE)}, n \in BOOLEAN}
  \cup {arrayVarLen(e, 4, n) : e \in {ScalarType("kInteger", 4, TRUE)}, n \in BOOLEAN}
IRTypes == TextTypes \cup NumericTypes \cup TemporalTypes \cup DictTypes \cup ArrayTypes
\* a Type object whose id is no enumerator of Type::Id
UndefinedTypes == {ScalarType("undefined", sz, FALSE) : sz \in {4, 8}}

InitTypes ==
  /\ \/ fn_call = "logicalType" /\ fn_args \in [type : IRTypes]
     \/ fn_call = "logicalSize" /\ fn_args \in [type : IRTypes \cup UndefinedTypes]
  /\ fn_result = NoValue
  /\ IdleQuals
  /\ IdleCodegen
  /\ IdleAgg

\* logicalType(type)
LogicalType ==
  /\ fn_call = "logicalType"
  /\ \E cast \in IntervalCastOutcomes :
       LET r == logicalType(fn_args.type, cast) IN
       /\ fn_result' = [first |-> r, second |-> NoValue]
       /\ fn_call' = IF r = Abort THEN "done_logicalType" ELSE "logicalType_again"
  /\ UNCHANGED fn_args
  /\ UNCHANGED fnOthers

\* logicalType(logicalType(type))
LogicalTypeAgain ==
  /\ fn_call = "logicalType_again"
  /\ \E cast \in IntervalCastOutcomes :
       fn_result' = [fn_result EXCEPT !.second = logicalType(fn_result.first.value, cast)]
  /\ fn_call' = "done_logicalType"
  /\ UNCHANGED fn_args
  /\ UNCHANGED fnOthers

LogicalSize ==
  /\ fn_call = "logicalSize"
  /\ fn_result' = logicalSize(fn_args.type)
  /\ fn_call' = "done_logicalSize"
  /\ UNCHANGED fn_args
  /\ UNCHANGED fnOthers

NextTypes ==
  \/ LogicalType
  \/ LogicalTypeAgain
  \/ LogicalSize

SpecTypes == InitTypes /\ [][NextTypes]_vars

-----------------------------------------------------------------------------
(* CodeGenerator::codegenIsNull / codegenIsNullNumber *)
IRConstInt1(b) == [ir |-> "ConstantInt", bits |-> 1, value |-> b]
IRCall(fname, args) == [ir |-> "call", fname |-> fname, args |-> args]
IRFCmpOEQ(lhs, rhs) == [ir |-> "FCmp", pred |-> "FCMP_OEQ", lhs |-> lhs, rhs |-> rhs]
IRICmpEQ(lhs, rhs) == [ir |-> "ICmp", pred |-> "ICMP_EQ", lhs |-> lhs, rhs |-> rhs]
llFp(name) == [ir |-> "llFp", value |-> name]
inlineIntNull(ty) == [ir |-> "inlineIntNull", type |-> ty]
posArg(expr) == [ir |-> "posArg", expr |-> expr]

\* the CHECK on the operand type
IsNullCheckedType(ty) ==
  \/ isInteger(ty) \/ isFloatingPoint(ty) \/ ty.k = "decimal"      \* isNumber
  \/ ty.k = "bool"
  \/ ty.k \in {"date", "time", "timestamp", "interval"}           \* isDateTime
  \/ isString(ty) \/ isExtDictionary(ty) \/ isArray(ty)

\* the type test made before the test for a null literal
IsNullCompileTime_TypeFirst(operand) ==
  IF ~IsNullCheckedType(operand.type) THEN "abort"
  ELSE IF ~operand.type.nullable THEN "false"
  ELSE IF operand.kind = "Constant" /\ operand.isNull THEN "true"
  ELSE "runtime"

\* what codegenIsNull decides before any code of the operand is generated
IsNullCompileTime(operand) ==
  IF operand.kind = "Constant" /\ operand.isNull THEN "true"
  ELSE IF ~IsNullCheckedType(operand.type) THEN "abort"
  ELSE IF ~operand.type.nullable THEN "false"
  ELSE "runtime"

codegenIsNullNumber(operand_lv, ty) ==
  IF isFloatingPoint(ty)
    THEN IRFCmpOEQ(operand_lv, IF TypeSize(ty) = 4 THEN llFp("NULL_FLOAT") ELSE llFp("NULL_DOUBLE"))
    ELSE IRICmpEQ(operand_lv, inlineIntNull(ty))

\* the value returned once operand_lv is there
IsNullCompare(operand, operand_lv) ==
  IF isArray(operand.type)
    THEN IRCall("array_is_null", <<operand_lv, posArg(operand)>>)
    ELSE codegenIsNullNumber(operand_lv, operand.type)

IsNullTypes ==
  {Ty(k, n) : k \in {"int8", "int16", "int32", "int64", "fp32", "fp64", "decimal", "bool",
                     "date", "timestamp", "text", "dict", "array", "column"},
              n \in BOOLEAN}
IsNullOperands ==
  {ColumnVar(c, ty) : c \in {1}, ty \in IsNullTypes}
  \cup {Constant(ty, isnull, 0) : ty \in IsNullTypes, isnull \in BOOLEAN}
  \cup {BinOper("kPLUS", ColumnVar(1, ty), ColumnVar(2, ty), ty) :
          ty \in {Ty("int32", TRUE), Ty("int32", FALSE), Ty("fp64", TRUE)}}

\* fn_result.generated: the expressions whose code has been generated so far
InitIsNull ==
  /\ fn_call = "codegenIsNull"
  /\ fn_args \in [operand : IsNullOperands]
  /\ fn_result = NoValue
  /\ IdleQuals
  /\ IdleCodegen
  /\ IdleAgg

\* null literal, CHECK, non-nullable type: return (or abort) without operand code
CodegenIsNullConstant ==
  /\ fn_call = "codegenIsNull"
  /\ IsNullCompileTime(fn_args.operand) # "runtime"
  /\ fn_result' =
       CASE IsNullCompileTime(fn_args.operand) = "true" ->
              [status |-> "ok", value |-> IRConstInt1(1), generated |-> <<>>]
         [] IsNullCompileTime(fn_args.operand) = "false" ->
              [status |-> "ok", value |-> IRConstInt1(0), generated |-> <<>>]
         [] OTHER -> [status |-> "abort", value |-> NoValue, generated |-> <<>>]
  /\ fn_call' = "done_codegenIsNull"
  /\ UNCHANGED fn_args
  /\ UNCHANGED fnOthers

\* codegen(operand, true, co).front()
CodegenIsNullOperand ==
  /\ fn_call = "codegenIsNull"
  /\ IsNullCompileTime(fn_args.operand) = "runtime"
  /\ fn_result' = [status |-> "running", value |-> IROperand(fn_args.operand),
                   generated |-> <<fn_args.operand>>]
  /\ fn_call' = "codegenIsNull_compare"
  /\ UNCHANGED fn_args
  /\ UNCHANGED fnOthers

\* array_is_null, or codegenIsNullNumber
CodegenIsNullCompare ==
  /\ fn_call = "codegenIsNull_compare"
  /\ fn_result' = [status |-> "ok", value |-> IsNullCompare(fn_args.operand, fn_result.value),
                   generated |-> fn_result.generated]
  /\ fn_call' = "done_codegenIsNull"
  /\ UNCHANGED fn_args
  /\ UNCHANGED fnOthers

NextIsNull ==
  \/ CodegenIsNullConstant
  \/ CodegenIsNullOperand
  \/ CodegenIsNullCompare

SpecIsNull == InitIsNull /\ [][NextIsNull]_vars

-----------------------------------------------------------------------------
(* ScalarExprVisitor<T>: the default traversal *)
\* further node variants of hdk::ir the dispatch of visit knows
Var(c, ty) == [kind |-> "Var", col |-> c, type |-> ty]
ColumnRef(idx) == [kind |-> "ColumnRef", index |-> idx]
GroupColumnRef(idx) == [kind |-> "GroupColumnRef", index |-> idx]
ExpressionTuple(tuple) == [kind |-> "ExpressionTuple", tuple |-> tuple]
ScalarSubquery(id) == [kind |-> "ScalarSubquery", node |-> id]
OffsetInFragment == [kind |-> "OffsetInFragment"]
InValues(a, value_list) == [kind |-> "InValues", arg |-> a, value_list |-> value_list]
InIntegerSet(a, values) == [kind |-> "InIntegerSet", arg |-> a, value_list |-> values]
InSubquery(a, id) == [kind |-> "InSubquery", arg |-> a, node |-> id]
\* CharLengthExpr, KeyForStringExpr, SampleRatioExpr, LowerExpr, CardinalityExpr
ArgExpr(kind, a) == [kind |-> kind, arg |-> a]
\* DatetruncExpr, ExtractExpr
FromExpr(kind, field, from) == [kind |-> kind, field |-> field, from_expr |-> from]
WidthBucketExpr(target, lower, upper, count) ==
  [kind |-> "WidthBucketExpr", target_value |-> target, lower_bound |-> lower,
   upper_bound |-> upper, partition_count |-> count]
WithEscape(like, escape) == [f \in DOMAIN like \cup {"escape"} |->
                               IF f = "escape" THEN escape ELSE like[f]]
CaseExpr(expr_pair_list, else_expr) ==
  [kind |-> "CaseExpr", expr_pair_list |-> expr_pair_list, else_expr |-> else_expr]
WindowFunction(args, partition_keys, order_keys) ==
  [kind |-> "WindowFunction", args |-> args, partition_keys |-> partition_keys,
   order_keys |-> order_keys]
FunctionOperWithCustomTypeHandling(args, ty) ==
  [kind |-> "FunctionOperWithCustomTypeHandling", args |-> args, type |-> ty]
ArrayExpr(elements) == [kind |-> "ArrayExpr", elements |-> elements]
DatediffExpr(start, end) == [kind |-> "DatediffExpr", start_expr |-> start, end_expr |-> end]
DateaddExpr(number, datetime) ==
  [kind |-> "DateaddExpr", number_expr |-> number, datetime_expr |-> datetime]

\* an exception leaving the visitor: std::runtime_error(what)
Thrown(what) == [status |-> "throw", value |-> what]

\* A visitor is the base class with the virtual functions a subclass replaced:
\* default_result and aggregate are the two protected hooks, leaves says whether
\* visitVar, visitColumnVar and visitConstant are overridden to name their node.
Visitor(default_result, aggregate, leaves) ==
  [default_result |-> default_result, aggregate |-> aggregate, leaves |-> leaves]

\* T{} for a sequence type
BaseVisitor == Visitor(Ok(<<>>), "next_result", "default")

\* ScalarExprToSql: T is std::string, both hooks throw, and the visit methods of
\* SerializeToSql.h:29-50 are overridden
ScalarExprToSql == Visitor(Thrown("Expression not supported yet"), "throw", "sql")
ScalarExprToSqlOverrides ==
  {"Var", "ColumnVar", "Constant", "UOper", "BinOper", "InValues", "LikeExpr", "CaseExpr",
   "FunctionOper", "WindowFunction", "AggExpr"}
Overridden(v, e) == v.leaves = "sql" /\ e.kind \in ScalarExprToSqlOverrides

defaultResult(v) == v.default_result

\* the base returns next_result; a collecting subclass appends it to aggregate;
\* ScalarExprToSql throws
aggregateResult(v, aggregate, next_result) ==
  CASE v.aggregate = "next_result" -> next_result
    [] v.aggregate = "append" -> Ok(aggregate.value \o next_result.value)
    [] v.aggregate = "throw" -> Thrown("Expression not supported yet")

RECURSIVE visit(_, _)
RECURSIVE VisitFold(_, _, _)
\* result = aggregateResult(result, visit(child)) for each child in turn; an
\* exception thrown while result is computed ends the traversal
VisitFold(v, result, children) ==
  IF result.status = "throw" \/ children = <<>> THEN result
  ELSE LET next_result == visit(Head(children), v)
       IN IF next_result.status = "throw" THEN next_result
          ELSE VisitFold(v, aggregateResult(v, result, next_result), Tail(children))

\* The bodies of the overriding methods are not part of this header: each is
\* taken to write its node's text around the texts of its children, which it
\* obtains with visit, so that an exception of a child leaves through it.
Text(s) == [piece |-> "text", text |-> s]
Sub(e) == [piece |-> "expr", expr |-> e]
Subs(s) == [i \in 1..Len(s) |-> Sub(s[i])]

RECURSIVE WhenThen(_)
WhenThen(pairs) ==
  IF pairs = <<>> THEN <<>>
  ELSE <<Text("WHEN"), Sub(Head(pairs)[1]), Text("THEN"), Sub(Head(pairs)[2])>>
       \o WhenThen(Tail(pairs))

serialize_column_ref(col) == IF col = 1 THEN "t.c1" ELSE "t.c2"

ScalarExprToSqlPieces(e) ==
  CASE e.kind = "Var" -> <<Text("var"), Text(serialize_column_ref(e.col))>>
    [] e.kind = "ColumnVar" -> <<Text(serialize_column_ref(e.col))>>
    [] e.kind = "Constant" -> <<Text(IF e.isNull THEN "NULL" ELSE "literal")>>
    [] e.kind = "UOper" -> <<Text(e.optype), Sub(e.operand)>>
    [] e.kind = "BinOper" -> <<Text("("), Sub(e.left), Text(e.optype), Sub(e.right), Text(")")>>
    [] e.kind = "InValues" ->
         <<Sub(e.arg), Text("IN"), Text("(")>> \o Subs(e.value_list) \o <<Text(")")>>
    [] e.kind = "LikeExpr" ->
         <<Sub(e.arg), Text("LIKE"), Sub(e.like)>>
         \o (IF "escape" \in DOMAIN e THEN <<Text("ESCAPE"), Sub(e.escape)>> ELSE <<>>)
    [] e.kind = "CaseExpr" ->
         <<Text("CASE")>> \o WhenThen(e.expr_pair_list)
         \o <<Text("ELSE"), Sub(e.else_expr), Text("END")>>
    [] e.kind \in {"FunctionOper", "FunctionOperWithCustomTypeHandling"} ->
         <<Text("f"), Text("(")>> \o Subs(e.args) \o <<Text(")")>>
    [] e.kind = "WindowFunction" ->
         <<Text("w"), Text("(")>> \o Subs(e.args) \o <<Text(")"), Text("OVER"), Text("(")>>
         \o Subs(e.partition_keys) \o Subs(e.order_keys) \o <<Text(")")>>
    [] e.kind = "AggExpr" ->
         <<Text(e.aggType), Text("(")>>
         \o (IF e.arg = NoArg THEN <<Text("*")>> ELSE <<Sub(e.arg)>>) \o <<Text(")")>>

RECURSIVE Written(_, _)
\* the pieces written one after the other, or the exception of the first child
\* that throws
Written(pieces, v) ==
  IF pieces = <<>> THEN Ok(<<>>)
  ELSE LET first == IF Head(pieces).piece = "text" THEN Ok(<<Head(pieces).text>>)
                    ELSE visit(Head(pieces).expr, v)
       IN IF first.status = "throw" THEN first
          ELSE LET rest == Written(Tail(pieces), v)
               IN IF rest.status = "throw" THEN rest ELSE Ok(first.value \o rest.value)

visitLeaf(e, v) == IF v.leaves = "name" THEN Ok(<<e>>) ELSE defaultResult(v)

visitUOper(e, v) == VisitFold(v, defaultResult(v), <<e.operand>>)

visitBinOper_RightFirst(e, v) == VisitFold(v, defaultResult(v), <<e.right, e.left>>)

visitBinOper(e, v) == VisitFold(v, defaultResult(v), <<e.left, e.right>>)

visitInValues(e, v) == VisitFold(v, visit(e.arg, v), e.value_list)

\* visitInIntegerSet, visitInSubquery, visitLower, visitLikelihood
visitArgOnly(e, v) == visit(e.arg, v)

\* visitCharLength, visitKeyForString, visitSampleRatio, visitCardinality
visitArg(e, v) == VisitFold(v, defaultResult(v), <<e.arg>>)

EscapeOf(e) == IF "escape" \in DOMAIN e THEN <<e.escape>> ELSE <<>>

visitLikeExpr(e, v) == VisitFold(v, defaultResult(v), <<e.arg, e.like>> \o EscapeOf(e))

visitRegexpExpr(e, v) == VisitFold(v, defaultResult(v), <<e.arg, e.pattern>> \o EscapeOf(e))

visitWidthBucket(e, v) ==
  VisitFold(v, defaultResult(v),
            <<e.target_value, e.lower_bound, e.upper_bound, e.partition_count>>)

RECURSIVE PairsInOrder(_)
\* expr_pair.first, expr_pair.second of each pair of the list
PairsInOrder(pairs) ==
  IF pairs = <<>> THEN <<>>
  ELSE <<Head(pairs)[1], Head(pairs)[2]>> \o PairsInOrder(Tail(pairs))

visitCaseExpr(e, v) ==
  VisitFold(v, defaultResult(v), PairsInOrder(e.expr_pair_list) \o <<e.else_expr>>)

\* visitDatetruncExpr, visitExtractExpr
visitFromExpr(e, v) == VisitFold(v, defaultResult(v), <<e.from_expr>>)

visitArrayOper(e, v) == VisitFold(v, defaultResult(v), e.elements)

visitFunctionOper(e, v) == VisitFold(v, defaultResult(v), e.args)

visitWindowFunction(e, v) ==
  VisitFold(v, defaultResult(v), e.args \o e.partition_keys \o e.order_keys)

visitDatediffExpr(e, v) == VisitFold(v, defaultResult(v), <<e.start_expr, e.end_expr>>)

visitDateaddExpr(e, v) == VisitFold(v, defaultResult(v), <<e.number_expr, e.datetime_expr>>)

visitAggExpr(e, v) == IF e.arg # NoArg THEN visit(e.arg, v) ELSE defaultResult(v)

\* the dynamic_cast chain
visit(e, v) ==
  CASE Overridden(v, e) -> Written(ScalarExprToSqlPieces(e), v)
    [] e.kind \in {"Var", "ColumnVar", "Constant"} -> visitLeaf(e, v)
    [] e.kind \in {"ColumnRef", "GroupColumnRef", "ExpressionTuple", "ScalarSubquery",
                   "OffsetInFragment"} -> defaultResult(v)
    [] e.kind = "UOper" -> visitUOper(e, v)
    [] e.kind = "BinOper" -> visitBinOper(e, v)
    [] e.kind = "InValues" -> visitInValues(e, v)
    [] e.kind \in {"InIntegerSet", "InSubquery", "LowerExpr", "LikelihoodExpr"} ->
         visitArgOnly(e, v)
    [] e.kind \in {"CharLengthExpr", "KeyForStringExpr", "SampleRatioExpr",
                   "CardinalityExpr"} -> visitArg(e, v)
    [] e.kind = "WidthBucketExpr" -> visitWidthBucket(e, v)
    [] e.kind = "LikeExpr" -> visitLikeExpr(e, v)
    [] e.kind = "RegexpExpr" -> visitRegexpExpr(e, v)
    [] e.kind = "CaseExpr" -> visitCaseExpr(e, v)
    [] e.kind \in {"DatetruncExpr", "ExtractExpr"} -> visitFromExpr(e, v)
    [] e.kind = "WindowFunction" -> visitWindowFunction(e, v)
    [] e.kind = "FunctionOperWithCustomTypeHandling" ->
         IF v.leaves = "sql" THEN Written(ScalarExprToSqlPieces(e), v)
         ELSE visitFunctionOper(e, v)
    [] e.kind = "FunctionOper" -> visitFunctionOper(e, v)
    [] e.kind = "ArrayExpr" -> visitArrayOper(e, v)
    [] e.kind = "DatediffExpr" -> visitDatediffExpr(e, v)
    [] e.kind = "DateaddExpr" -> visitDateaddExpr(e, v)
    [] e.kind = "AggExpr" -> visitAggExpr(e, v)
    [] OTHER -> defaultResult(v)

\* the visitors and trees of the calls
SeedMark == [kind |-> "T"]
Visitors ==
  {BaseVisitor, Visitor(Ok(<<>>), "append", "name"), Visitor(Ok(<<SeedMark>>), "append", "name")}
VisitLeaves == {ColumnVar(1, TInt), Constant(TInt, FALSE, 1), Var(2, TInt)}
VisitOperands ==
  VisitLeaves \cup {ArgExpr("LowerExpr", ColumnVar(1, TInt)),
                    BinOper("kPLUS", ColumnVar(1, TInt), Var(2, TInt), TInt),
                    ColumnRef(1)}
VisitLists == {<<>>} \cup {<<a>> : a \in VisitLeaves}
                    \cup {<<ColumnVar(1, TInt), Var(2, TInt)>>, <<Var(2, TInt), ColumnVar(1, TInt)>>}
VisitPairs == {<<ColumnVar(1, TInt), Constant(TInt, FALSE, 1)>>,
               <<Var(2, TInt), ColumnVar(1, TInt)>>}
VisitExprs ==
  VisitOperands
  \cup {GroupColumnRef(1), ScalarSubquery(1), OffsetInFragment,
        ExpressionTuple(<<ColumnVar(1, TInt), Var(2, TInt)>>)}
  \cup {UOper("kUMINUS", a, TInt) : a \in VisitOperands}
  \cup {BinOper("kMINUS", a, b, TInt) : a, b \in VisitOperands}
  \cup {InValues(a, l) : a \in VisitLeaves, l \in VisitLists}
  \cup {InIntegerSet(a, <<1, 2>>) : a \in VisitOperands}
  \cup {InSubquery(a, 1) : a \in VisitOperands}
  \cup {ArgExpr(k, a) : k \in {"CharLengthExpr", "KeyForStringExpr", "SampleRatioExpr",
                               "LowerExpr", "CardinalityExpr"}, a \in VisitOperands}
  \cup {FromExpr(k, "kYEAR", a) : k \in {"DatetruncExpr", "ExtractExpr"}, a \in VisitOperands}
  \cup {WidthBucketExpr(a, b, Constant(TInt, FALSE, 1), ColumnVar(1, TInt)) :
          a, b \in VisitLeaves}
  \cup {LikeExpr(a, b, FALSE) : a, b \in VisitLeaves}
  \cup {WithEscape(LikeExpr(a, b, FALSE), Var(2, TInt)) : a, b \in VisitLeaves}
  \cup {RegexpExpr(a, b) : a, b \in VisitLeaves}
  \cup {WithEscape(RegexpExpr(a, b), Var(2, TInt)) : a, b \in VisitLeaves}
  \cup {CaseExpr(<<p>>, a) : p \in VisitPairs, a \in VisitOperands}
  \cup {CaseExpr(<<p, q>>, a) : p, q \in VisitPairs, a \in VisitLeaves}
  \cup {WindowFunction(a, p, o) : a, p, o \in VisitLists}
  \cup {FunctionOper(l, TInt) : l \in VisitLists}
  \cup {FunctionOperWithCustomTypeHandling(l, TInt) : l \in VisitLists}
  \cup {ArrayExpr(l) : l \in VisitLists}
  \cup {DatediffExpr(a, b) : a, b \in VisitLeaves}
  \cup {DateaddExpr(a, b) : a, b \in VisitLeaves}
  \cup {LikelihoodExpr(a, 1, 2) : a \in VisitLeaves}
  \cup {AggExpr("kSUM", a, FALSE, TInt) : a \in VisitOperands \cup {NoArg}}

InitVisitor ==
  /\ IdleQuals /\ IdleCodegen /\ IdleAgg
  /\ fn_call = "visit"
  /\ fn_args \in [expr : VisitExprs, visitor : Visitors]
  /\ fn_result = NoValue

\* visitor.visit(expr)
Visit ==
  /\ fn_call = "visit"
  /\ fn_result' = visit(fn_args.expr, fn_args.visitor)
  /\ fn_call' = "done_visit"
  /\ UNCHANGED fn_args
  /\ UNCHANGED fnOthers

NextVisitor == Visit

SpecVisitor == InitVisitor /\ [][NextVisitor]_vars

\* the trees handed to ScalarExprToSql: those of the default traversal, and
\* supported nodes over a node that has no text
SqlExprs ==
  VisitExprs
  \cup {BinOper("kAND", a, b, TBool) :
          a \in {ColumnVar(1, TBool), RegexpExpr(ColumnVar(1, TInt), Constant(TInt, FALSE, 1)),
                 FromExpr("ExtractExpr", "kYEAR", ColumnVar(2, TInt))},
          b \in {ColumnVar(2, TBool), ArgExpr("LowerExpr", ColumnVar(1, TInt)),
                 FromExpr("DatetruncExpr", "kYEAR", ColumnVar(2, TInt)), ColumnRef(1)}}
  \cup {ArgExpr("LowerExpr", RegexpExpr(ColumnVar(1, TInt), Constant(TInt, FALSE, 1))),
        AggExpr("kCOUNT", ColumnRef(1), FALSE, TInt),
        UOper("kNOT", InIntegerSet(ColumnVar(1, TInt), <<1, 2>>), TBool)}

InitToSql ==
  /\ IdleQuals /\ IdleCodegen /\ IdleAgg
  /\ fn_call = "ScalarExprToSql"
  /\ fn_args \in [expr : SqlExprs, visitor : {ScalarExprToSql}]
  /\ fn_result = NoValue

\* ScalarExprToSql(...).visit(expr)
Serialize ==
  /\ fn_call = "ScalarExprToSql"
  /\ fn_result' = visit(fn_args.expr, fn_args.visitor)
  /\ fn_call' = "done_ScalarExprToSql"
  /\ UNCHANGED fn_args
  /\ UNCHANGED fnOthers

NextToSql == Serialize

SpecToSql == InitToSql /\ [][NextToSql]_vars

-----------------------------------------------------------------------------
(* DateTimeUtils: rescaling an epoch.  An int64_t is the sequence of its five
   limbs of 15 bits, least significant first, in two's complement: the fifth
   limb holds bits 60 to 63. *)
Base == 32768

\* a with n limbs: zero-extended or cut
Pad(a, n) == [i \in 1..n |-> IF i <= Len(a) THEN a[i] ELSE 0]

RECURSIVE CarryInto(_, _, _, _)
\* the carry into limb i of a + b + carry
CarryInto(a, b, carry, i) ==
  IF i = 1 THEN carry ELSE (a[i - 1] + b[i - 1] + CarryInto(a, b, carry, i - 1)) \div Base

\* sequences of limbs
Limbs == Seq(0..(Base - 1))

\* a + b + carry on sequences of one length, the carry out of the top dropped
AddLimbs(a0, b0, carry) ==
  [a \in Limbs, b \in Limbs |->
     SubSeq([i \in 1..Len(a) |-> (a[i] + b[i] + CarryInto(a, b, carry, i)) % Base], 1, Len(a))][a0, b0]

\* a - b for unsigned a >= b of one length
SubLimbs(a, b) == AddLimbs(a, [i \in 1..Len(b) |-> Base - 1 - b[i]], 1)

\* unsigned a >= b, of one length
GreaterEq(a, b) ==
  \A i \in 1..Len(a) : a[i] < b[i] => \E k \in (i + 1)..Len(a) : a[k] > b[k] /\ \A j \in (k+1)..Len(a) : a[j] = b[j]

\* the low 64 bits
Trunc64(a) == SubSeq([i \in 1..5 |-> IF i = 5 THEN a[5] % 16 ELSE a[i]], 1, 5)

Neg64(a) == Trunc64(AddLimbs([i \in 1..5 |-> Base - 1 - a[i]], <<1, 0, 0, 0, 0>>, 0))

Add64(a, b) == Trunc64(AddLimbs(a, b, 0))

Sub64(a, b) == Add64(a, Neg64(b))

I64(n) ==
  IF n >= 0 THEN <<n % Base, (n \div Base) % Base, n \div (Base * Base), 0, 0>>
  ELSE Neg64(<<(-n) % Base, ((-n) \div Base) % Base, (-n) \div (Base * Base), 0, 0>>)

IsNeg64(a) == a[5] >= 8

\* the magnitude, as an unsigned number
Abs64(a) == IF IsNeg64(a) THEN Neg64(a) ELSE a

\* a * d for one limb d (d = Base included), Len(a) + 1 limbs
MulSmall(a, d) ==
  AddLimbs([i \in 1..(Len(a) + 1) |-> IF i <= Len(a) THEN (a[i] * d) % Base ELSE 0],
           [i \in 1..(Len(a) + 1) |-> IF i = 1 THEN 0 ELSE (a[i - 1] * d) \div Base], 0)

RECURSIVE MulFull(_, _)
\* the whole unsigned product, Len(a) + Len(b) limbs
MulFull(a, b) ==
  IF b = <<>> THEN SubSeq(Pad(<<>>, Len(a)), 1, Len(a))
  ELSE [rest \in Limbs |->
          AddLimbs(SubSeq(Pad(MulSmall(a, Head(b)), Len(a) + Len(b)), 1, Len(a) + Len(b)),
                   SubSeq(<<0>> \o rest, 1, Len(a) + Len(b)), 0)
       ][MulFull(a, Tail(b))]

\* int64_t * int64_t, modulo 2^64
Mul64(a, b) == Trunc64(MulFull(a, b))

\* a * 2^s for s < 15, n limbs
ShiftLeft(a, s, n) ==
  SubSeq([i \in 1..n |-> (IF i <= Len(a) THEN (a[i] * (2 ^ s)) % Base ELSE 0)
                       + (IF i > 1 /\ i - 1 <= Len(a) THEN (a[i - 1] * (2 ^ s)) \div Base ELSE 0)],
         1, n)

\* the index of the top limb that is not zero
TopLimb(d) == CHOOSE m \in 1..Len(d) : d[m] # 0 /\ \A k \in (m + 1)..Len(d) : d[k] = 0

\* the next quotient limb (Knuth's algorithm D): the largest c with c * d <= r,
\* for r < d * Base and the top limb m of d at least Base / 2
QuotientLimb(r, d, m) ==
  LET estimate == (r[m + 1] * Base + r[m]) \div d[m]
      top == IF estimate > Base - 1 THEN Base - 1 ELSE estimate
  IN CHOOSE c \in {top - 2, top - 1, top} :
        /\ c >= 0
        /\ GreaterEq(Pad(r, Len(d) + 1), MulSmall(d, c))
        /\ ~GreaterEq(Pad(r, Len(d) + 1), MulSmall(d, c + 1))

\* one step of the long division: above is <<quotient limbs, remainder>> of the
\* limbs above limb
UDivStep(above, limb, d, m) ==
  [r \in Limbs |->
     [q \in 0..(Base - 1) |->
        <<<<q>> \o above[1], SubLimbs(r, SubSeq(MulSmall(d, q), 1, Len(d)))>>
     ][QuotientLimb(r, d, m)]
  ][<<limb>> \o SubSeq(above[2], 1, Len(d) - 1)]

RECURSIVE UDivFrom(_, _, _, _)
\* long division by limbs: <<quotient limbs, remainder>> of the limbs of n from
\* the top one down to limb i, divided by d
UDivFrom(n, d, m, i) ==
  IF i > Len(n) THEN <<<<>>, SubSeq(Pad(<<>>, Len(d)), 1, Len(d))>>
  ELSE [above \in Seq(Limbs) |-> UDivStep(above, n[i], d, m)][UDivFrom(n, d, m, i + 1)]

\* unsigned n / d for d # 0: both are shifted until the top limb of d is at
\* least Base / 2, which leaves the quotient as it is
UDiv64(n, d) ==
  LET m == TopLimb(d)
      s == CHOOSE s \in 0..14 : d[m] * (2 ^ s) >= Base \div 2 /\ d[m] * (2 ^ s) < Base
  IN Pad(UDivFrom(ShiftLeft(n, s, Len(n) + 1), ShiftLeft(d, s, Len(d) + 2), m, 1)[1], Len(n))

\* int64_t / int64_t, truncating towards zero; the divisors here are positive
Div64(a, b) ==
  LET q == Trunc64(UDiv64(Abs64(a), Abs64(b)))
  IN IF IsNeg64(a) # IsNeg64(b) THEN Neg64(q) ELSE q

\* signed a > b
Greater64(a, b) ==
  IF IsNeg64(a) # IsNeg64(b) THEN IsNeg64(b) ELSE a # b /\ GreaterEq(a, b)

kMilliSecsPerSec == I64(1000)
kMicroSecsPerSec == I64(1000000)
kNanoSecsPerSec == I64(1000000000)

UnknownDimen == Thrown("Unknown dimen")
UnexpectedTimeUnit == Thrown("Unexpected time unit")
ScalingOverflow == Thrown("Value Overflow/underflow detected while scaling DateTime precision.")

get_timestamp_precision_scale(dimen) ==
  CASE dimen = 0 -> Ok(I64(1))
    [] dimen = 3 -> Ok(kMilliSecsPerSec)
    [] dimen = 6 -> Ok(kMicroSecsPerSec)
    [] dimen = 9 -> Ok(kNanoSecsPerSec)
    [] OTHER -> UnknownDimen

get_nanosecs_in_unit(unit) ==
  CASE unit = "kDay" -> Ok(Mul64(I64(86400000), I64(1000000)))
    [] unit = "kSecond" -> Ok(I64(1000000000))
    [] unit = "kMilli" -> Ok(I64(1000000))
    [] unit = "kMicro" -> Ok(I64(1000))
    [] unit = "kNano" -> Ok(I64(1))
    [] OTHER -> UnexpectedTimeUnit

\* Signed overflow of epoch * scale is undefined.  The build either wraps the
\* product and divides it back, or relies on the product not overflowing and
\* takes (epoch * scale) / scale to be epoch.
SignedOverflowOutcomes == {"wraps", "assumed_absent"}

ScaleUpEpoch_Unchecked(epoch, scale, overflow) == Ok(Mul64(epoch, scale))

\* scaled_epoch = epoch * scale; throw if epoch && epoch != scaled_epoch / scale
ScaleUpEpoch(epoch, scale, overflow) ==
  LET scaled_epoch == Mul64(epoch, scale)
      back == IF overflow = "wraps" THEN Div64(scaled_epoch, scale) ELSE epoch
  IN IF epoch # I64(0) /\ epoch # back THEN ScalingOverflow ELSE Ok(scaled_epoch)

\* the overload taking a ScalingType and a dimension
get_datetime_scaled_epoch(direction, epoch, dimen, overflow) ==
  LET scale == get_timestamp_precision_scale(dimen)
  IN CASE direction = "ScaleUp" ->
            IF scale.status = "throw" THEN scale
            ELSE ScaleUpEpoch(epoch, scale.value, overflow)
       [] direction = "ScaleDown" ->
            IF scale.status = "throw" THEN scale
            ELSE Ok(Div64(epoch, scale.value))
       [] OTHER -> Abort

\* the overload taking the old and the new time unit
get_datetime_scaled_epoch_units(epoch, old_unit, new_unit, overflow) ==
  LET old_scale == get_nanosecs_in_unit(old_unit)
      new_scale == get_nanosecs_in_unit(new_unit)
  IN IF old_scale.status = "throw" THEN old_scale
     ELSE IF new_scale.status = "throw" THEN new_scale
     ELSE IF Greater64(old_scale.value, new_scale.value)
          THEN ScaleUpEpoch(epoch, Div64(old_scale.value, new_scale.value), overflow)
          ELSE Ok(Div64(epoch, Div64(new_scale.value, old_scale.value)))

\* the calls
MaxEpoch == <<32767, 32767, 32767, 32767, 7>>
MinEpoch == <<0, 0, 0, 0, 8>>
ScaleFactors ==
  {I64(1000), I64(1000000), I64(1000000000), I64(86400), I64(86400000),
   Mul64(I64(86400), I64(1000000)), Mul64(I64(86400), I64(1000000000))}
\* around the largest epoch each factor can scale
EdgeEpochs(s) ==
  LET q == Div64(MaxEpoch, s)
  IN {q, Add64(q, I64(1)), Neg64(q), Sub64(Neg64(q), I64(1)), Sub64(Neg64(q), I64(2))}
Epochs ==
  {I64(0), I64(1), I64(-1), I64(1234567), I64(-86399), Mul64(I64(65536), I64(65536)),
   <<0, 0, 0, 0, 4>>, <<0, 0, 0, 0, 12>>, MaxEpoch, MinEpoch}
  \cup UNION {EdgeEpochs(s) : s \in ScaleFactors}
Dimens == {0, 1, 3, 6, 9}
ScalingTypes == {"ScaleUp", "ScaleDown"}
ScaleUnits == {"kMonth", "kDay", "kSecond", "kMilli", "kMicro", "kNano"}

InitEpoch ==
  /\ IdleQuals /\ IdleCodegen /\ IdleAgg
  /\ \/ /\ fn_call = "get_datetime_scaled_epoch"
        /\ fn_args \in [direction : ScalingTypes, epoch : Epochs, dimen : Dimens,
                        overflow : SignedOverflowOutcomes]
     \/ /\ fn_call = "get_datetime_scaled_epoch_units"
        /\ fn_args \in [epoch : Epochs, old_unit : ScaleUnits, new_unit : ScaleUnits,
                        overflow : SignedOverflowOutcomes]
  /\ fn_result = NoValue

\* get_datetime_scaled_epoch(direction, epoch, dimen)
ScaleByDimen ==
  /\ fn_call = "get_datetime_scaled_epoch"
  /\ fn_result' = get_datetime_scaled_epoch(fn_args.direction, fn_args.epoch, fn_args.dimen,
                                            fn_args.overflow)
  /\ fn_call' = "done_scaled_by_dimen"
  /\ UNCHANGED fn_args
  /\ UNCHANGED fnOthers

\* get_datetime_scaled_epoch(epoch, old_unit, new_unit)
ScaleByUnits ==
  /\ fn_call = "get_datetime_scaled_epoch_units"
  /\ fn_result' = get_datetime_scaled_epoch_units(fn_args.epoch, fn_args.old_unit,
                                                  fn_args.new_unit, fn_args.overflow)
  /\ fn_call' = "done_scaled_by_units"
  /\ UNCHANGED fn_args
  /\ UNCHANGED fnOthers

NextEpoch ==
  \/ ScaleByDimen
  \/ ScaleByUnits

SpecEpoch == InitEpoch /\ [][NextEpoch]_vars

-----------------------------------------------------------------------------
(* compiler::Backend: the backends of one process.  fn_result holds the heap:
   the backends made so far, the target machines made so far, and the
   GPUTarget structures of the callers; fn_args holds the last call and the
   heap it was made on. *)
MaxBackends == 3    \* backends made in one run

ExecutorDeviceTypes == {"CPU", "GPU", "other"}
Executors == {1, 2}
GpuTargetIds == {1, 2}
DeviceArchs == {"sm_70", "sm_80"}

CPUBackend == [class |-> "CPUBackend"]

\* the target machine initializeNVPTXBackend makes is a new object
initializeNVPTXBackend(arch, heap) ==
  [heap EXCEPT !.target_machines = @ \o <<[arch |-> arch, live |-> TRUE]>>]

\* CUDABackend::CUDABackend: <<the backend, the heap after it>>
CUDABackend(executor, is_gpu_smem_used, gpu_target, heap) ==
  LET arch == heap.gpu_targets[gpu_target].arch
      made == initializeNVPTXBackend(arch, heap)
      machine == Len(made.target_machines)
  IN <<[class |-> "CUDABackend", executor_ |-> executor,
        is_gpu_smem_used_ |-> is_gpu_smem_used, gpu_target_ |-> gpu_target,
        nvptx_target_machine_ |-> machine],
       [made EXCEPT !.gpu_targets[gpu_target].nvptx_target_machine = machine]>>

make_shared(backend, heap) ==
  [heap EXCEPT !.backends = @ \o <<[obj |-> backend, live |-> TRUE]>>]

getBackend_DefaultCpu(dt, executor, is_gpu_smem_used, gpu_target, heap) ==
  CASE dt = "GPU" ->
         LET built == CUDABackend(executor, is_gpu_smem_used, gpu_target, heap)
         IN [status |-> "ok", heap |-> make_shared(built[1], built[2])]
    [] OTHER -> [status |-> "ok", heap |-> make_shared(CPUBackend, heap)]

\* the status of the call and the heap after it; CHECK(false) ends the process
getBackend(dt, executor, is_gpu_smem_used, gpu_target, heap) ==
  CASE dt = "CPU" -> [status |-> "ok", heap |-> make_shared(CPUBackend, heap)]
    [] dt = "GPU" ->
         LET built == CUDABackend(executor, is_gpu_smem_used, gpu_target, heap)
         IN [status |-> "ok", heap |-> make_shared(built[1], built[2])]
    [] OTHER -> [status |-> "abort", heap |-> heap]

\* Backend::~Backend of the backend at index i: a CUDABackend's unique_ptr
\* destroys its target machine
DestroyBackend(i, heap) ==
  LET b == heap.backends[i].obj
      gone == [heap EXCEPT !.backends[i].live = FALSE]
  IN IF b.class = "CUDABackend"
     THEN [gone EXCEPT !.target_machines[b.nvptx_target_machine_].live = FALSE]
     ELSE gone

InitBackend ==
  /\ IdleQuals /\ IdleCodegen /\ IdleAgg
  /\ fn_call = "compiler"
  /\ fn_args = NoValue
  /\ \E archs \in [GpuTargetIds -> DeviceArchs] :
       fn_result = [backends |-> <<>>, target_machines |-> <<>>,
                    gpu_targets |-> [g \in GpuTargetIds |->
                                       [arch |-> archs[g], nvptx_target_machine |-> 0]]]

\* getBackend(dt, executor, is_gpu_smem_used, gpu_target)
GetBackend ==
  /\ fn_call = "compiler"
  /\ Len(fn_result.backends) < MaxBackends
  /\ \E dt \in ExecutorDeviceTypes, executor \in Executors, smem \in BOOLEAN, g \in GpuTargetIds :
       LET out == getBackend(dt, executor, smem, g, fn_result)
       IN /\ fn_call' = IF out.status = "abort" THEN "compiler_aborted" ELSE "compiler"
          /\ fn_args' = [call |-> "getBackend", dt |-> dt, executor |-> executor,
                         is_gpu_smem_used |-> smem, gpu_target |-> g, before |-> fn_result]
          /\ fn_result' = out.heap
  /\ UNCHANGED fnOthers

\* the last shared_ptr to a backend goes away
ReleaseBackend ==
  /\ fn_call = "compiler"
  /\ \E i \in 1..Len(fn_result.backends) :
       /\ fn_result.backends[i].live
       /\ fn_args' = [call |-> "release", backend |-> i, before |-> fn_result]
       /\ fn_result' = DestroyBackend(i, fn_result)
  /\ UNCHANGED <<fn_call, fnOthers>>

NextBackend == GetBackend \/ ReleaseBackend

SpecBackend == InitBackend /\ [][NextBackend]_vars

-----------------------------------------------------------------------------
(* Query hints of one query block: the hints written in the block are scanned
   once and the layout hint is registered after the scan, against the global
   enable_columnar_output setting. *)
MaxHints == 3       \* hints written in one query block

QueryHintNames == {"columnar_output", "rowwise_output", "cpu_mode"}

RegisteredQueryHint(registered, detect_columnar, detect_rowwise) ==
  [registered |-> registered, detect_columnar_output_hint |-> detect_columnar,
   detect_rowwise_output_hint |-> detect_rowwise]

\* the scan of one hint
ScanQueryHint(st, hint) ==
  CASE hint = "cpu_mode" -> [st EXCEPT !.registered = @ \cup {"kCpuMode"}]
    [] hint = "columnar_output" -> [st EXCEPT !.detect_columnar_output_hint = TRUE]
    [] hint = "rowwise_output" -> [st EXCEPT !.detect_rowwise_output_hint = TRUE]
    [] OTHER -> st

RegisterLayoutHint_LastWins(st, enable_columnar_output) ==
  IF st.detect_rowwise_output_hint
  THEN IF enable_columnar_output THEN st.registered \cup {"kRowwiseOutput"} ELSE st.registered
  ELSE IF st.detect_columnar_output_hint /\ ~enable_columnar_output
       THEN st.registered \cup {"kColumnarOutput"}
       ELSE st.registered

\* the hints registered after the scan
RegisterLayoutHint(st, enable_columnar_output) ==
  IF st.detect_columnar_output_hint /\ st.detect_rowwise_output_hint
  THEN st.registered
  ELSE IF st.detect_columnar_output_hint
       THEN IF enable_columnar_output THEN st.registered
            ELSE st.registered \cup {"kColumnarOutput"}
  ELSE IF st.detect_rowwise_output_hint
       THEN IF enable_columnar_output THEN st.registered \cup {"kRowwiseOutput"}
            ELSE st.registered
  ELSE st.registered

isHintRegistered(registered, hint) == hint \in registered
isAnyQueryHintDelivered(registered) == registered # {}

\* the queries of the two layout tests and what the tests expect of each:
\* <<hints written, hint asked for ("any" for isAnyQueryHintDelivered),
\*   expected with columnar output enabled, expected with it disabled>>
LayoutHintTests ==
  {<<<<"columnar_output">>, "kColumnarOutput", FALSE, TRUE>>,
   <<<<"rowwise_output">>, "kRowwiseOutput", TRUE, FALSE>>,
   <<<<"columnar_output", "rowwise_output">>, "any", FALSE, FALSE>>,
   <<<<"rowwise_output", "columnar_output">>, "any", FALSE, FALSE>>,
   <<<<"rowwise_output", "columnar_output", "rowwise_output">>, "any", FALSE, FALSE>>,
   <<<<"rowwise_output", "rowwise_output">>, "kRowwiseOutput", TRUE, FALSE>>,
   <<<<"columnar_output", "columnar_output">>, "kColumnarOutput", FALSE, TRUE>>}

InitHints ==
  /\ IdleQuals /\ IdleCodegen /\ IdleAgg
  /\ fn_call = "getParsedQueryHint"
  /\ \E hints \in SeqsUpTo(QueryHintNames, MaxHints), enable \in BOOLEAN :
       fn_args = [hints |-> hints, enable_columnar_output |-> enable, idx |-> 1]
  /\ fn_result = RegisteredQueryHint({}, FALSE, FALSE)

\* one iteration of the loop over the hints of the block
ScanHint ==
  /\ fn_call = "getParsedQueryHint"
  /\ fn_args.idx <= Len(fn_args.hints)
  /\ fn_result' = ScanQueryHint(fn_result, fn_args.hints[fn_args.idx])
  /\ fn_args' = [fn_args EXCEPT !.idx = @ + 1]
  /\ UNCHANGED <<fn_call, fnOthers>>

\* after the loop
RegisterHints ==
  /\ fn_call = "getParsedQueryHint"
  /\ fn_args.idx > Len(fn_args.hints)
  /\ fn_call' = "done_getParsedQueryHint"
  /\ fn_result' = [fn_result EXCEPT
                     !.registered = RegisterLayoutHint(fn_result, fn_args.enable_columnar_output)]
  /\ UNCHANGED <<fn_args, fnOthers>>

NextHints == ScanHint \/ RegisterHints

SpecHints == InitHints /\ [][NextHints]_vars

-----------------------------------------------------------------------------
(* Logical expressions at the thresholds of codegenLogicalShortCircuit *)
RECURSIVE NotChain(_, _)
\* k nested NOTs over e
NotChain(k, e) == IF k = 0 THEN e ELSE UOper("kNOT", NotChain(k - 1, e), Ty("bool", e.type.nullable))

BoolCol(n) == ColumnVar(5, Ty("bool", n))
ThresholdAtoms(n) ==
  Atoms(n) \cup
  {LikelihoodExpr(BoolCol(n), 9, 10), LikelihoodExpr(BoolCol(n), 1, 10),
   NotChain(9, BoolCol(n)), NotChain(10, BoolCol(n)),
   NotChain(10, LikelihoodExpr(BoolCol(n), 19, 20)),
   NotChain(12, LikelihoodExpr(BoolCol(n), 19, 20)),
   NotChain(10, LikelihoodExpr(BoolCol(n), 1, 20))}

ThresholdExprs(n) ==
  {BinOper(op, x, y, Ty("bool", n)) : op \in {"kAND", "kOR"},
                                      x \in ThresholdAtoms(n), y \in ThresholdAtoms(n)}

InitShortCircuit ==
  /\ \E n \in BOOLEAN : cg_expr \in ThresholdExprs(n)
  /\ cg_stack = <<Frame(cg_expr)>>
  /\ fetch_cache = {}
  /\ cg_entry_cache = fetch_cache
  /\ cg_ret = NoValue
  /\ IdleQuals
  /\ IdleAgg
  /\ IdleFn

SpecShortCircuit == InitShortCircuit /\ [][NextCodegen]_vars

-----------------------------------------------------------------------------
(* Calls of get_likelihood, with the tests its callers apply to the result *)
LikelihoodHints == {<<0, 1>>, <<1, 20>>, <<1, 2>>, <<19, 20>>, <<1, 1>>}
LikelihoodLeaves ==
  {LikelihoodExpr(BoolCol(TRUE), h[1], h[2]) : h \in LikelihoodHints}
  \cup {BoolCol(TRUE), AtomLike(TRUE), Constant(Ty("bool", FALSE), FALSE, 1)}
LikelihoodOperators ==
  {UOper(op, x, TBool) : op \in {"kNOT", "kISNULL"}, x \in LikelihoodLeaves}
  \cup {BinOper(op, x, y, TBool) : op \in {"kAND", "kOR", "kEQ"},
                                   x \in LikelihoodLeaves, y \in LikelihoodLeaves}
LikelihoodExprs ==
  LikelihoodLeaves \cup LikelihoodOperators
  \cup {UOper("kNOT", z, TBool) : z \in LikelihoodOperators}
  \cup {BinOper(op, z, y, TBool) : op \in {"kAND", "kOR"},
                                   z \in LikelihoodOperators, y \in LikelihoodLeaves}
  \cup {BinOper(op, y, z, TBool) : op \in {"kAND", "kOR"},
                                   z \in LikelihoodOperators, y \in LikelihoodLeaves}

InitLikelihood ==
  /\ IdleQuals /\ IdleCodegen /\ IdleAgg
  /\ fn_call = "get_likelihood"
  /\ fn_args \in [expr : LikelihoodExprs]
  /\ fn_result = NoValue

\* get_likelihood(expr) < 0.10 in prioritizeQuals; get_likelihood(lhs) > 0.90 and
\* get_likelihood(lhs) < 0.10 in codegenLogicalShortCircuit
GetLikelihood ==
  /\ fn_call = "get_likelihood"
  /\ fn_call' = "done_get_likelihood"
  /\ LET likelihood == get_likelihood(fn_args.expr)
     IN fn_result' = [likelihood |-> likelihood,
                      below_ten_percent |-> NVLess(likelihood, 1, 10),
                      or_threshold |-> NVGreater(likelihood, 9, 10),
                      and_threshold |-> NVLess(likelihood, 1, 10)]
  /\ UNCHANGED <<fn_args, fnOthers>>

NextLikelihood == GetLikelihood

SpecLikelihood == InitLikelihood /\ [][NextLikelihood]_vars

-----------------------------------------------------------------------------
(* Calls of get_weight: the call of a caller has depth 0, the calls of the
   recursion have the depth of their node *)
MaxWeightDepth == 6   \* deepest call of get_weight the model starts from

RECURSIVE get_weight_depth(_, _)
\* the depth of the deepest call get_weight(e, depth) makes, itself included
get_weight_depth(e, depth) ==
  IF e.kind = "LikeExpr" THEN depth
  ELSE IF e.kind = "RegexpExpr" THEN depth
  ELSE IF e.kind = "UOper" THEN get_weight_depth(e.operand, depth + 1)
  ELSE IF e.kind = "BinOper" THEN
    LET lhs_depth == get_weight_depth(e.left, depth + 1)
        rhs_depth == get_weight_depth(e.right, depth + 1)
    IN IF lhs_depth > rhs_depth THEN lhs_depth ELSE rhs_depth
  ELSE depth

ArrCol == ColumnVar(6, TArr)
WeightLeaves ==
  {BoolCol(TRUE), ArrCol, AtomLike(TRUE),
   LikeExpr(ColumnVar(4, TText), Constant(Ty("text", FALSE), FALSE, 7), TRUE),
   RegexpExpr(ColumnVar(4, TText), Constant(Ty("text", FALSE), FALSE, 7))}
WeightOperators ==
  {UOper("kNOT", x, TBool) : x \in WeightLeaves}
  \cup {BinOper(op, x, y, TBool) : op \in {"kAND", "kEQ"}, x \in WeightLeaves, y \in WeightLeaves}
WeightExprs ==
  WeightLeaves \cup WeightOperators
  \cup {NotChain(k, x) : k \in 2..7, x \in WeightLeaves}
  \cup {NotChain(4, z) : z \in WeightOperators}
  \cup {BinOper("kOR", NotChain(k, BoolCol(TRUE)), z, TBool) : k \in {3, 4}, z \in WeightOperators}

InitWeight ==
  /\ IdleQuals /\ IdleCodegen /\ IdleAgg
  /\ fn_call = "get_weight"
  /\ fn_args \in [expr : WeightExprs, depth : 0..MaxWeightDepth]
  /\ fn_result = NoValue

GetWeight ==
  /\ fn_call = "get_weight"
  /\ fn_call' = "done_get_weight"
  /\ fn_result' = [weight |-> get_weight(fn_args.expr, fn_args.depth),
                   deepest_call |-> get_weight_depth(fn_args.expr, fn_args.depth)]
  /\ UNCHANGED <<fn_args, fnOthers>>

NextWeight == GetWeight

SpecWeight == InitWeight /\ [][NextWeight]_vars

-----------------------------------------------------------------------------
(* CodeGenerator::prioritizeQuals called on output vectors that already hold
   entries: the two vectors are reference parameters and the function only
   ever calls push_back on them *)
PoolPtrs == 3            \* quals of the unit are drawn from Heap(1..PoolPtrs)
MaxPrefilled == 1        \* longest output vector at entry
MaxPoolSimple == 2       \* longest simple_quals list of such a unit

QualPool == {p \in Ptrs : p <= PoolPtrs}

\* fn_args keeps the two vectors as the caller passed them
InitQualsPrefilled ==
  /\ simple_quals \in SeqsUpTo(QualPool, MaxPoolSimple)
  /\ quals \in SeqsUpTo(QualPool, MaxQuals)
  /\ hoisted_quals \in {h \in SUBSET QualPool : Cardinality(h) <= MaxHoisted}
  /\ primary_quals \in SeqsUpTo(QualPool, MaxPrefilled)
  /\ deferred_quals \in SeqsUpTo(QualPool, MaxPrefilled)
  /\ short_circuit = FALSE
  /\ pq_pc = "simple"
  /\ pq_idx = 1
  /\ IdleCodegen
  /\ IdleAgg
  /\ fn_call = "idle"
  /\ fn_args = [primary |-> primary_quals, deferred |-> deferred_quals]
  /\ fn_result = NoValue

SpecQualsPrefilled == InitQualsPrefilled /\ [][NextQuals]_vars

-----------------------------------------------------------------------------
(* constrained_not_null called on its own: an expression and a qualifier list *)
MaxNotNullQuals == 2     \* longest qualifier list scanned

\* the aggregate argument: two columns and an expression over one of them
NotNullExprs ==
  {ColumnVar(1, Ty("int32", TRUE)), ColumnVar(2, Ty("int32", TRUE)),
   BinOper("kPLUS", ColumnVar(1, Ty("int32", TRUE)), IntLit(1), Ty("int32", TRUE))}

IsNullOf(e) == UOper("kISNULL", e, Ty("bool", FALSE))
IsNotNullOf(e) == UOper("kISNOTNULL", e, Ty("bool", FALSE))
NotOf(e) == UOper("kNOT", e, Ty("bool", FALSE))

\* null tests, their negations, and quals that are no null test at the top
NotNullQuals ==
  UNION {{IsNotNullOf(e), IsNullOf(e), NotOf(IsNullOf(e)), NotOf(IsNotNullOf(e))} :
         e \in NotNullExprs}
  \cup {BinOper("kGT", ColumnVar(1, Ty("int32", TRUE)), IntLit(0), Ty("bool", TRUE)),
        NotOf(BinOper("kGT", ColumnVar(1, Ty("int32", TRUE)), IntLit(0), Ty("bool", TRUE))),
        NotOf(NotOf(IsNullOf(ColumnVar(1, Ty("int32", TRUE))))),
        BinOper("kAND", IsNotNullOf(ColumnVar(1, Ty("int32", TRUE))),
                IsNotNullOf(ColumnVar(2, Ty("int32", TRUE))), Ty("bool", FALSE)),
        UOper("kUMINUS", ColumnVar(1, Ty("int32", TRUE)), Ty("int32", TRUE))}

InitNotNull ==
  /\ fn_call = "constrained_not_null"
  /\ fn_args \in [expr : NotNullExprs, quals : SeqsUpTo(NotNullQuals, MaxNotNullQuals)]
  /\ fn_result = NoValue
  /\ IdleQuals
  /\ IdleCodegen
  /\ IdleAgg

ConstrainedNotNull ==
  /\ fn_call = "constrained_not_null"
  /\ fn_result' = constrained_not_null(fn_args.expr, fn_args.quals)
  /\ fn_call' = "done_constrained_not_null"
  /\ UNCHANGED <<fn_args, fnOthers>>

NextNotNull == ConstrainedNotNull

SpecNotNull == InitNotNull /\ [][NextNotNull]_vars

-----------------------------------------------------------------------------
(* Properties of prioritizeQuals *)
PQDone == pq_pc = "done"

NotHoisted(p) == p \notin hoisted_quals
\* likelihood below 10% and no unsafe division, as the specification words it
BelowTenPercentSafe(p) ==
  LET l == get_likelihood(Heap(p)) IN
    /\ l.valid
    /\ 10 * l.n < l.d
    /\ \A i \in DOMAIN VisitAll(Heap(p)) : ~is_div(VisitAll(Heap(p))[i])
\* the kinds of qualifier the specification calls deferred
DeferrableKind(p) ==
  LET e == Heap(p) IN
    \/ e.kind \in {"LikeExpr", "RegexpExpr", "FunctionOper"}
    \/ /\ e.kind = "BinOper"
       /\ \/ \E i \in DOMAIN VisitAll(e) : is_div(VisitAll(e)[i])
          \/ e.right.type.k = "array"
NHPrimaryKind(p) == NotHoisted(p) /\ ~DeferrableKind(p)
NHDeferrableKind(p) == NotHoisted(p) /\ DeferrableKind(p)
Occurrences(s, p) == Cardinality({i \in DOMAIN s : s[i] = p})

\* general quals already scanned, and simple quals already scanned
ScannedGeneral == IF pq_pc = "simple" THEN <<>> ELSE SubSeq(quals, 1, pq_idx - 1)
ScannedSimple == IF pq_pc = "simple" THEN SubSeq(simple_quals, 1, pq_idx - 1) ELSE simple_quals
\* position of the first non-hoisted selective safe qual among s, 0 if none
FirstPoint(s) ==
  IF \E i \in DOMAIN s : NotHoisted(s[i]) /\ BelowTenPercentSafe(s[i])
  THEN CHOOSE i \in DOMAIN s :
         /\ NotHoisted(s[i]) /\ BelowTenPercentSafe(s[i])
         /\ \A j \in 1..(i - 1) : ~(NotHoisted(s[j]) /\ BelowTenPercentSafe(s[j]))
  ELSE 0

\* C3: scanning the general quals in order, the first non-hoisted qual with
\* likelihood below 0.10 and no unsafe division is appended to primary as the one
\* short-circuit point, every non-hoisted general qual after it goes to deferred,
\* quals before it keep their own classification, no second short-circuit point is
\* ever created, and [q1 (0.05, safe), q2 (LIKE), q3 (0.5)] yields primary = [q1],
\* deferred = [q2, q3].
C3_ShortCircuitPoint ==
  LET g == ScannedGeneral
      k == FirstPoint(g)
      before == IF k = 0 THEN g ELSE SubSeq(g, 1, k - 1)
      after == IF k = 0 THEN <<>> ELSE SubSeq(g, k + 1, Len(g))
      point == IF k = 0 THEN <<>> ELSE <<g[k]>>
  IN
    /\ primary_quals = SelectSeq(ScannedSimple, NHPrimaryKind)
                         \o SelectSeq(before, NHPrimaryKind) \o point
    /\ deferred_quals = SelectSeq(ScannedSimple, NHDeferrableKind)
                          \o SelectSeq(before, NHDeferrableKind) \o SelectSeq(after, NotHoisted)
    /\ (PQDone /\ simple_quals = <<>> /\ quals = <<1, 2, 3>> /\ hoisted_quals = {})
          => (primary_quals = <<1>> /\ deferred_quals = <<2, 3>> /\ short_circuit)

C3_Witness ==
  /\ PQDone /\ simple_quals = <<>> /\ quals = <<1, 2, 3>> /\ hoisted_quals = {}
  /\ primary_quals = <<1>> /\ deferred_quals = <<2, 3>>

\* C4: a non-hoisted qual (simple or general) that is a LIKE, a REGEXP, a function
\* call, or a binary operator with an unsafe division or an array-typed right
\* operand is never in primary, and once the call returns each of its occurrences
\* is in deferred.
C4_DeferrableKindsDeferred ==
  /\ \A i \in DOMAIN primary_quals : ~DeferrableKind(primary_quals[i])
  /\ PQDone =>
       \A p \in Ptrs : (NotHoisted(p) /\ DeferrableKind(p)) =>
          Occurrences(deferred_quals, p) = Occurrences(simple_quals, p) + Occurrences(quals, p)

C4_Witness ==
  /\ PQDone /\ hoisted_quals = {}
  /\ simple_quals = <<6>> /\ quals = <<1, 8, 7>>
  /\ deferred_quals = <<6, 8, 7>>

\* C5: a non-hoisted x / 0 qual (binary divide by a literal zero) is never in
\* primary and always ends up in deferred, as a simple or a general qual, before or
\* after a short-circuit point.
IsDivideByLiteralZero(p) ==
  LET e == Heap(p) IN
    /\ e.kind = "BinOper" /\ e.optype = "kDIVIDE"
    /\ e.right.kind = "Constant" /\ ~e.right.isNull /\ e.right.value = 0

C5_DivideByZeroDeferred ==
  /\ \A i \in DOMAIN primary_quals : ~IsDivideByLiteralZero(primary_quals[i])
  /\ PQDone =>
       \A p \in Ptrs : (NotHoisted(p) /\ IsDivideByLiteralZero(p)) =>
          Occurrences(deferred_quals, p) = Occurrences(simple_quals, p) + Occurrences(quals, p)

C5_Witness ==
  /\ PQDone /\ hoisted_quals = {}
  /\ simple_quals = <<4>> /\ quals = <<4, 1, 4>>
  /\ deferred_quals = <<4, 4, 4>> /\ primary_quals = <<1>>

\* C6: a hoisted qual is appended to neither output vector, never becomes the
\* short-circuit point, and the outputs and the returned flag are those of the
\* same call with the hoisted quals removed from both input lists.
C6_HoistedSkipped ==
  /\ \A i \in DOMAIN primary_quals : primary_quals[i] \notin hoisted_quals
  /\ \A i \in DOMAIN deferred_quals : deferred_quals[i] \notin hoisted_quals
  /\ PQDone =>
       PQCur = PrioritizeQualsResult(SelectSeq(simple_quals, NotHoisted),
                                     SelectSeq(quals, NotHoisted), {})

C6_Witness ==
  /\ PQDone /\ hoisted_quals = {1}
  /\ simple_quals = <<1>> /\ quals = <<1, 3, 2>>
  /\ primary_quals = <<3>> /\ deferred_quals = <<2>> /\ ~short_circuit

\* C7: the call returns true exactly when some non-hoisted general qual has
\* likelihood below 0.10 and no unsafe division; simple quals never make it true,
\* and when it returns false every deferred qual is of a deferrable kind.
C7_ReturnValue ==
  PQDone =>
    /\ short_circuit <=> (\E i \in DOMAIN quals : NotHoisted(quals[i]) /\ BelowTenPercentSafe(quals[i]))
    /\ ~short_circuit => \A i \in DOMAIN deferred_quals : DeferrableKind(deferred_quals[i])

C7_Witness ==
  /\ PQDone /\ hoisted_quals = {}
  /\ simple_quals = <<1>> /\ quals = <<5, 3>>
  /\ ~short_circuit /\ primary_quals = <<1, 5, 3>>

-----------------------------------------------------------------------------
(* Properties of codegenLogical / codegenLogicalShortCircuit *)
CgDone == cg_expr # NoValue /\ cg_stack = <<>> /\ cg_ret # NoValue

\* the eager three-valued value of an expression on one row
RECURSIVE ThreeValued(_, _)
ThreeValued(e, row) ==
  IF isLogic(e)
    THEN EagerValue(e.optype, e.type.nullable, ThreeValued(e.left, row), ThreeValued(e.right, row))
    ELSE row[e]

IsPhi(v) == v.ir = "phi"

\* AND(true,null)=null, AND(false,null)=false, OR(true,null)=true, OR(false,null)=null
TruthTable(optype, l, r, result) ==
  /\ (optype = "kAND" /\ l = 1 /\ r = NULL_BOOLEAN) => result = NULL_BOOLEAN
  /\ (optype = "kAND" /\ l = 0 /\ r = NULL_BOOLEAN) => result = 0
  /\ (optype = "kOR" /\ l = 1 /\ r = NULL_BOOLEAN) => result = 1
  /\ (optype = "kOR" /\ l = 0 /\ r = NULL_BOOLEAN) => result = NULL_BOOLEAN

\* C1: for every row, the code generated for a logical AND/OR (short-circuit path,
\* with or without operand swap) computes the value of the eager three-valued
\* path, and both obey the three-valued truth table.
C1_ShortCircuitEqualsEager ==
  CgDone =>
    \A row \in RowValues(cg_expr.type.nullable) :
      LET l == ThreeValued(cg_expr.left, row)
          r == ThreeValued(cg_expr.right, row)
      IN /\ Run(cg_ret, row) = ThreeValued(cg_expr, row)
         /\ TruthTable(cg_expr.optype, l, r, Run(cg_ret, row))
         /\ TruthTable(cg_expr.optype, l, r, ThreeValued(cg_expr, row))

\* all values (sub-terms) of the generated code
RECURSIVE SubValues(_)
SubValues(v) ==
  IF v.ir = "operand" THEN {v} ELSE {v} \cup SubValues(v.lhs_lv) \cup SubValues(v.rhs_lv)
UnsafeOperands(v) ==
  {o \in SubValues(v) : o.ir = "operand" /\ contains_unsafe_division(o.expr)}
DivisionForced(v) ==
  IsPhi(v) /\ (contains_unsafe_division(v.bin_oper.left) \/ contains_unsafe_division(v.bin_oper.right))
OneSideUnsafe(v) ==
  IsPhi(v) /\ (contains_unsafe_division(v.bin_oper.left) # contains_unsafe_division(v.bin_oper.right))

\* C2 (as stated): whenever an unsafe division forces the short circuit, the code
\* generated unconditionally (the gating operand) holds no unsafe division and the
\* unsafe operand is generated inside rhs_bb, whichever operands are unsafe.
C2_GatingOperandSafe ==
  cg_ret # NoValue =>
    \A v \in SubValues(cg_ret) : DivisionForced(v) =>
      /\ UnsafeOperands(v.lhs_lv) = {}
      /\ UnsafeOperands(v.rhs_lv) # {}

\* C2 (amended): whenever exactly one operand of the AND/OR contains an unsafe
\* division, the gating operand holds no unsafe division and the unsafe operand is
\* generated inside rhs_bb; when both operands contain one, the left operand is
\* generated unconditionally and the right one inside rhs_bb.
C2_GatingOperandSafeOneSide ==
  cg_ret # NoValue =>
    \A v \in SubValues(cg_ret) :
      /\ OneSideUnsafe(v) =>
           /\ UnsafeOperands(v.lhs_lv) = {}
           /\ UnsafeOperands(v.rhs_lv) # {}
           /\ ~contains_unsafe_division(GatingOperand(v.bin_oper))
      /\ (DivisionForced(v) /\ ~OneSideUnsafe(v)) =>
           /\ UnsafeOperands(v.lhs_lv) # {}
           /\ UnsafeOperands(v.rhs_lv) # {}

C2_Witness ==
  /\ CgDone
  /\ cg_expr = BinOper("kAND", AtomDivide(TRUE), AtomLikely(TRUE), Ty("bool", TRUE))
  /\ IsPhi(cg_ret)
  /\ cg_ret.lhs_lv = IROperand(AtomLikely(TRUE))
  /\ cg_ret.rhs_lv = IROperand(AtomDivide(TRUE))

\* columns decoded by code that is not inside any rhs_bb of v
RECURSIVE UnconditionalColumns(_)
UnconditionalColumns(v) ==
  IF v.ir = "operand" THEN ColumnsOf(v.expr)
  ELSE IF v.ir = "phi" THEN UnconditionalColumns(v.lhs_lv)
  ELSE UnconditionalColumns(v.lhs_lv) \cup UnconditionalColumns(v.rhs_lv)

RECURSIVE AllColumns(_)
AllColumns(v) ==
  IF v.ir = "operand" THEN ColumnsOf(v.expr)
  ELSE AllColumns(v.lhs_lv) \cup AllColumns(v.rhs_lv)

LiveAnchors == {i \in DOMAIN cg_stack : cg_stack[i].pc = "sc_rhs"}

C8_State ==
  \* live snapshots are nested: an outer one is contained in every inner one and
  \* in the cache, and it holds the decodings of its own gating operand
  /\ \A i \in LiveAnchors :
       /\ cg_stack[i].anchor \subseteq fetch_cache
       /\ UnconditionalColumns(cg_stack[i].lhs_lv) \subseteq cg_stack[i].anchor
       /\ \A j \in LiveAnchors : i < j => cg_stack[i].anchor \subseteq cg_stack[j].anchor
  \* once codegen is over the cache holds what was cached on entry plus the
  \* decodings generated outside every rhs_bb, and nothing else
  /\ CgDone => fetch_cache = cg_entry_cache \cup UnconditionalColumns(cg_ret)

C8_Step ==
  \* a return from codegenLogicalShortCircuit restores the snapshot of that call
  /\ (cg_stack # <<>> /\ Top.pc = "sc_rhs" /\ Len(cg_stack') < Len(cg_stack))
        => (fetch_cache' = Top.anchor /\ IsPhi(cg_ret'))
  \* the cache loses entries only in such a return
  /\ ~(fetch_cache \subseteq fetch_cache')
        => (cg_stack # <<>> /\ Top.pc = "sc_rhs" /\ cg_stack' = Pop)
  \* a snapshot is taken when the gating operand has been generated and the gated
  \* one has not been started
  /\ (cg_stack # <<>> /\ Top.pc = "sc_lhs" /\ Len(cg_stack') > Len(cg_stack))
        => /\ cg_ret = IROperand(GatingOperand(Top.expr)) \/ cg_ret.ir \in {"phi", "eager"}
           /\ cg_stack'[Len(cg_stack)].anchor = fetch_cache
           /\ cg_stack'[Len(cg_stack')] = Frame(GatedOperand(Top.expr))

\* C8: the fetch-cache snapshot is taken after the gating operand is generated and
\* before the gated one, it is restored when that codegenLogicalShortCircuit
\* returns, nested snapshots are restored innermost first, and after the return
\* the cache equals the snapshot and holds no decoding made inside the gated branch.
C8_FetchCacheRestored == [](C8_State) /\ [][C8_Step]_vars

C8_Witness ==
  /\ CgDone
  /\ IsPhi(cg_ret) /\ IsPhi(cg_ret.rhs_lv)
  /\ cg_entry_cache = {}
  /\ fetch_cache = UnconditionalColumns(cg_ret)
  /\ AllColumns(cg_ret.rhs_lv.rhs_lv) \cap (fetch_cache \cup AllColumns(cg_ret.rhs_lv.lhs_lv)) = {}
  /\ AllColumns(cg_ret.rhs_lv.lhs_lv) \cap fetch_cache = {}

-----------------------------------------------------------------------------
(* Properties of get_agg_initial_val / init_agg_val_vec *)
AggReturned(name) == agg_call = name /\ agg_result # NoValue /\ agg_result.status = "ok"
CallWidth == slot_byte_width(agg_args.type, agg_args.enable_compaction,
                             agg_args.min_byte_width_to_compact)

\* null sentinels of the types, written out as 64-bit values
NullSentinel(ty, byte_width) ==
  CASE ty.k = "int8" -> <<-1, -128>>
    [] ty.k = "int16" -> <<-1, -32768>>
    [] ty.k \in {"int32", "dict"} -> <<-1, -2147483647 - 1>>
    [] ty.k = "int64" -> <<-2147483647 - 1, 0>>
    [] ty.k = "fp32" /\ byte_width = 4 -> <<0, 8388608>>       \* bits of FLT_MIN
    [] ty.k = "fp32" /\ byte_width = 8 -> <<940572672, 0>>     \* bits of (double)FLT_MIN
    [] ty.k = "fp64" -> <<1048576, 0>>                         \* bits of DBL_MIN

\* C9: whenever get_agg_initial_val returns for SUM, the value is the null
\* sentinel of the type (the integer null value, or the bit pattern of the
\* float/double null value) when the type is nullable, hence not zero, and
\* it is 0 (all bits of 0.0 are zero) when the type is not nullable
C9_SumInitialValue ==
  (AggReturned("done_get_agg_initial_val") /\ agg_args.agg = "kSUM") =>
     IF agg_args.type.nullable
       THEN /\ agg_result.value = NullSentinel(agg_args.type, CallWidth)
            /\ agg_result.value # <<0, 0>>
       ELSE agg_result.value = <<0, 0>>

C9_Witness ==
  /\ AggReturned("done_get_agg_initial_val")
  /\ agg_args.agg = "kSUM"
  /\ agg_args.type = Ty("fp32", TRUE)
  /\ agg_result.value = <<0, 8388608>>

\* largest / smallest value of a slot of the given width
WidthMax(fp, byte_width) ==
  CASE ~fp /\ byte_width = 1 -> <<0, 127>>
    [] ~fp /\ byte_width = 2 -> <<0, 32767>>
    [] ~fp /\ byte_width = 4 -> <<0, 2147483647>>
    [] ~fp /\ byte_width = 8 -> <<2147483647, -1>>
    [] fp /\ byte_width = 4 -> <<0, 2139095039>>               \* bits of FLT_MAX
    [] fp /\ byte_width = 8 -> <<2146435071, -1>>              \* bits of DBL_MAX
WidthMin(fp, byte_width) ==
  CASE ~fp /\ byte_width = 1 -> <<-1, -128>>
    [] ~fp /\ byte_width = 2 -> <<-1, -32768>>
    [] ~fp /\ byte_width = 4 -> <<-1, -2147483647 - 1>>
    [] ~fp /\ byte_width = 8 -> <<-2147483647 - 1, 0>>
    [] fp /\ byte_width = 4 -> <<-1, -8388609>>                \* bits of -FLT_MAX
    [] fp /\ byte_width = 8 -> <<-1048577, -1>>                \* bits of -DBL_MAX

IsMinMaxOverInt32(kind) ==
  /\ Len(agg_args.target_exprs) = 1
  /\ agg_args.target_exprs[1] =
       AggExpr(kind, ColumnVar(1, Ty("int32", FALSE)), FALSE, Ty("int32", FALSE))
ChosenBytes ==
  LET qmd == agg_args.query_mem_desc IN
  IF qmd.logical_sized_columns_allowed THEN qmd.padded_slot_width_bytes[1]
  ELSE qmd.compact_byte_width

\* C10 as stated: MIN over a non-nullable 4-byte integer column starts at
\* INT32_MAX and MAX at INT32_MIN, for every compaction setting and for both
\* grouped and non-grouped queries
C10_Int32LimitsAlways ==
  /\ (AggReturned("done_get_agg_initial_val") /\ agg_args.type = Ty("int32", FALSE)) =>
        /\ agg_args.agg = "kMIN" => agg_result.value = <<0, 2147483647>>
        /\ agg_args.agg = "kMAX" => agg_result.value = <<-1, -2147483647 - 1>>
  /\ AggReturned("done_init_agg_val_vec") =>
        /\ IsMinMaxOverInt32("kMIN") => agg_result.value = << <<0, 2147483647>> >>
        /\ IsMinMaxOverInt32("kMAX") => agg_result.value = << <<-1, -2147483647 - 1>> >>

\* C10 amended: the identity value is the limit of the slot width (the type's
\* size raised to the compaction minimum, 8 bytes without compaction), or the
\* type's null sentinel when the type is nullable; MIN/MAX over a
\* non-nullable int32 column starts at INT32_MAX/INT32_MIN only in a grouped
\* query with a 4-byte slot, at INT64_MAX/INT64_MIN in a grouped query with
\* an 8-byte slot, and at the int32 null sentinel in a non-grouped query
C10_IdentityBySlotWidth ==
  /\ (AggReturned("done_get_agg_initial_val")
        /\ agg_args.agg \in {"kMIN", "kMAX", "kSINGLE_VALUE", "kSAMPLE"}) =>
        agg_result.value =
          IF agg_args.type.nullable THEN NullSentinel(agg_args.type, CallWidth)
          ELSE IF agg_args.agg = "kMIN"
            THEN WidthMax(isFloatingPoint(agg_args.type), CallWidth)
            ELSE WidthMin(isFloatingPoint(agg_args.type), CallWidth)
  /\ \A kind \in {"kMIN", "kMAX"} :
       (AggReturned("done_init_agg_val_vec") /\ IsMinMaxOverInt32(kind)) =>
          agg_result.value =
            << IF ~agg_args.query_mem_desc.is_group_by THEN <<-1, -2147483647 - 1>>
               ELSE IF kind = "kMIN"
                 THEN WidthMax(FALSE, IF ChosenBytes = 8 THEN 8 ELSE 4)
                 ELSE WidthMin(FALSE, IF ChosenBytes = 8 THEN 8 ELSE 4) >>

C10_Witness ==
  /\ AggReturned("done_init_agg_val_vec")
  /\ IsMinMaxOverInt32("kMIN")
  /\ agg_args.query_mem_desc.is_group_by
  /\ agg_result.value = << <<0, 2147483647>> >>

-----------------------------------------------------------------------------
(* Properties of init_agg_val_vec over target expressions and qualifiers *)
ExprsReturned == AggReturned("done_init_agg_val_vec_exprs")
ExprsCalled == agg_call = "done_init_agg_val_vec_exprs"
NonGrouped == agg_args.query_mem_desc.query_desc_type = "NonGroupedAggregate"

\* the null sentinel the first slot holds for a MIN / MAX / SUM over arg in a
\* query without GROUP BY: the 8-byte slot, or the float slot of a float argument
NonGroupedNull(kind, arg_type) ==
  IF arg_type.k = "fp32" THEN <<0, 8388608>>
  ELSE IF arg_type.k = "fp64" THEN <<1048576, 0>>
  ELSE IF kind = "kSUM" THEN <<-2147483647 - 1, 0>>
  ELSE IF arg_type.k = "int16" THEN <<-1, -32768>>
  ELSE <<-1, -2147483647 - 1>>

\* C11: in a query without GROUP BY every MIN/MAX/SUM/AVG/APPROX_QUANTILE
\* target is left nullable (skip_null_val set, compact type nullable) whatever
\* the nullability of its argument and whatever IS NOT NULL qualifier there
\* is, so a MIN/MAX/SUM slot starts at the null sentinel; a target is forced
\* non-nullable by the qualifiers only when that rule does not apply
C11_NonGroupedNullable ==
  /\ ExprsCalled =>
       \A i \in DOMAIN agg_result.target_infos :
         LET info == agg_result.target_infos[i]
             expr == agg_args.targets[i]
             plain == get_target_info(expr, agg_args.bigint_count)
         IN /\ (NonGrouped /\ info.is_agg /\ info.agg_kind \in NullableAggKinds) =>
                 /\ info.skip_null_val
                 /\ get_compact_type(info).nullable
            /\ (info.is_agg /\ info.agg_arg_type # NoType
                  /\ ~get_compact_type(info).nullable /\ get_compact_type(plain).nullable) =>
                 /\ ~(NonGrouped /\ info.agg_kind \in NullableAggKinds)
                 /\ \E q \in DOMAIN agg_args.quals :
                      agg_args.quals[q] \in
                        {UOper("kISNOTNULL", expr.arg, Ty("bool", FALSE)),
                         UOper("kNOT", UOper("kISNULL", expr.arg, Ty("bool", FALSE)),
                               Ty("bool", FALSE)),
                         UOper("kNOT", UOper("kISNOTNULL", expr.arg, Ty("bool", FALSE)),
                               Ty("bool", FALSE))}
  /\ (ExprsReturned /\ NonGrouped /\ agg_args.targets[1].kind = "AggExpr"
        /\ agg_args.targets[1].aggType \in {"kMIN", "kMAX", "kSUM"}) =>
       agg_result.value[1] =
         NonGroupedNull(agg_args.targets[1].aggType, agg_args.targets[1].arg.type)
  /\ (AggReturned("done_init_agg_val_vec")
        /\ ~agg_args.query_mem_desc.is_group_by
        /\ agg_args.target_exprs[1].kind = "AggExpr"
        /\ agg_args.target_exprs[1].aggType \in {"kMIN", "kMAX", "kSUM"}) =>
       agg_result.value[1] =
         NonGroupedNull(agg_args.target_exprs[1].aggType, agg_args.target_exprs[1].arg.type)

C11_Witness ==
  /\ ExprsReturned /\ NonGrouped
  /\ agg_args.targets =
       <<AggExpr("kSUM", ColumnVar(1, Ty("int32", FALSE)), FALSE, Ty("int64", FALSE))>>
  /\ agg_args.quals = <<UOper("kISNOTNULL", ColumnVar(1, Ty("int32", FALSE)), Ty("bool", FALSE))>>
  /\ agg_result.target_infos[1].skip_null_val
  /\ agg_result.value = << <<-2147483647 - 1, 0>> >>

SumOfNullableInt ==
  /\ Len(agg_args.targets) = 1
  /\ agg_args.targets[1] =
       AggExpr("kSUM", ColumnVar(1, Ty("int32", TRUE)), FALSE, Ty("int64", TRUE))
HasQual(q) == \E i \in DOMAIN agg_args.quals : agg_args.quals[i] = q
IsNotNullQual(c) == UOper("kISNOTNULL", c, Ty("bool", FALSE))
NotIsNullQual(c) == UOper("kNOT", UOper("kISNULL", c, Ty("bool", FALSE)), Ty("bool", FALSE))
NotIsNotNullQual(c) ==
  UOper("kNOT", UOper("kISNOTNULL", c, Ty("bool", FALSE)), Ty("bool", FALSE))
SumColumn == ColumnVar(1, Ty("int32", TRUE))

-----------------------------------------------------------------------------
(* Shape of the vector init_agg_val_vec returns *)
VecReturned == AggReturned("done_init_agg_val_vec")
VecSlotCount == Len(agg_args.query_mem_desc.padded_slot_width_bytes)

\* a target that is no aggregate, or SAMPLE over a type that is no dictionary
IsPlainShape(t) ==
  \/ t.kind # "AggExpr"
  \/ t.aggType = "kSAMPLE" /\ t.type.k # "dict"
IsAvgShape(t) == t.kind = "AggExpr" /\ t.aggType = "kAVG"
SlotsOf(t) == IF IsAvgShape(t) THEN 2 ELSE 1

\* slot index at which target i starts
RECURSIVE SlotIndexOf(_, _)
SlotIndexOf(ts, i) == IF i = 1 THEN 0 ELSE SlotIndexOf(ts, i - 1) + SlotsOf(ts[i - 1])

\* the values target i has to emit: "zero" for a fixed 0, "init" for an initial value
ShapeOf(ts, i, padded) ==
  LET t == ts[i]
      idx == SlotIndexOf(ts, i)
  IN IF IsPlainShape(t)
       THEN (IF idx + 1 \in DOMAIN padded /\ padded[idx + 1] > 0 THEN <<"zero">> ELSE <<>>)
            \o (IF t.type.k \in {"array", "text"} THEN <<"zero">> ELSE <<>>)
     ELSE IF IsAvgShape(t) THEN <<"init", "zero">>
     ELSE <<"init">>

RECURSIVE ShapeUpTo(_, _, _)
ShapeUpTo(ts, n, padded) ==
  IF n = 0 THEN <<>> ELSE ShapeUpTo(ts, n - 1, padded) \o ShapeOf(ts, n, padded)

VecShape ==
  ShapeUpTo(agg_args.target_exprs, Len(agg_args.target_exprs),
            agg_args.query_mem_desc.padded_slot_width_bytes)

ShapeKept ==
  /\ Len(agg_result.value) = Len(VecShape)
  /\ \A k \in DOMAIN VecShape : VecShape[k] = "zero" => agg_result.value[k] = <<0, 0>>

\* the descriptor holds a slot for every value of the targets
RECURSIVE SlotsNeeded(_)
SlotsNeeded(ts) ==
  IF ts = <<>> THEN 0
  ELSE (IF IsAvgShape(Head(ts)) \/ Head(ts).type.k \in {"array", "text"} THEN 2 ELSE 1)
       + SlotsNeeded(Tail(ts))

-----------------------------------------------------------------------------
(* Properties of logicalType / logicalSize *)
LogicalTypeDone == fn_call = "done_logicalType" /\ fn_result.first.status = "ok"

\* C14: logicalType is idempotent: applied to a type it returned, it returns
\* that same interned type
C14_LogicalTypeIdempotent ==
  LogicalTypeDone => fn_result.second = fn_result.first

C14_Witness ==
  /\ LogicalTypeDone
  /\ fn_args.type.id = "kExtDictionary" /\ fn_args.type.size = 2
  /\ fn_result.first.value # fn_args.type
  /\ fn_result.second = fn_result.first

\* the type the mapping of logicalType has to give
ExpectedLogicalType(t) ==
  CASE t.id = "kExtDictionary" ->
         [id |-> "kExtDictionary", size |-> 4, nullable |-> t.nullable, unit |-> "none",
          elemType |-> t.elemType, dictId |-> t.dictId]
    [] t.id = "kDate" ->
         [id |-> "kDate", size |-> 8, nullable |-> t.nullable, unit |-> "kSecond",
          elemType |-> NoElem, dictId |-> 0]
    [] t.id = "kTime" ->
         [id |-> "kTime", size |-> 8, nullable |-> t.nullable, unit |-> t.unit,
          elemType |-> NoElem, dictId |-> 0]
    [] t.id = "kInterval" ->
         [id |-> "kInterval", size |-> 8, nullable |-> t.nullable, unit |-> t.unit,
          elemType |-> NoElem, dictId |-> 0]
    [] t.id = "kFixedLenArray" ->
         [id |-> "kVarLenArray", size |-> 4, nullable |-> t.nullable, unit |-> "none",
          elemType |-> t.elemType, dictId |-> 0]
    [] OTHER -> t

\* C15: logicalType returns the 4-byte dictionary type for a dictionary type,
\* the 8-byte second-unit date for a date, the 8-byte time / interval of the
\* same unit for a time / interval, the variable-length array with a 4-byte
\* header for a fixed-length array, and every other type unchanged
C15_LogicalTypeMapping ==
  fn_call \in {"logicalType_again", "done_logicalType"} =>
    /\ fn_result.first.status = "ok"
    /\ fn_result.first.value = ExpectedLogicalType(fn_args.type)

LogicalSizeDone == fn_call = "done_logicalSize"
DefinedKind(t) == t.id # "undefined"
FixedWidthKind(t) ==
  t.id \in {"kBoolean", "kInteger", "kDecimal", "kFloatingPoint", "kExtDictionary",
            "kTimestamp", "kTime", "kDate", "kInterval"}
ExpectedLogicalSize(t) ==
  IF t.id = "kExtDictionary" THEN 4
  ELSE IF t.id \in {"kTimestamp", "kTime", "kDate", "kInterval"} THEN 8
  ELSE t.size

\* C16 as stated: for a type of a defined kind logicalSize returns a size in
\* {1,2,4,8}: 4 for dictionary text, 8 for timestamp/time/date/interval, the
\* declared size otherwise; for an undefined kind it terminates the process
C16_LogicalSizeRange ==
  LogicalSizeDone =>
    IF DefinedKind(fn_args.type)
      THEN /\ fn_result.status = "ok"
           /\ fn_result.value = ExpectedLogicalSize(fn_args.type)
           /\ fn_result.value \in {1, 2, 4, 8}
      ELSE fn_result.status = "abort"

\* C16 amended: for a type of a defined kind logicalSize returns 4 for
\* dictionary text, 8 for timestamp/time/date/interval and the declared size
\* otherwise; the result is in {1,2,4,8} for boolean, integer, decimal,
\* floating point, dictionary and temporal types, and is the declared size,
\* whatever it is, for arrays, text, varchar, column and null types; for an
\* undefined kind it terminates the process
C16_LogicalSizeByKind ==
  LogicalSizeDone =>
    IF DefinedKind(fn_args.type)
      THEN /\ fn_result.status = "ok"
           /\ fn_result.value = ExpectedLogicalSize(fn_args.type)
           /\ FixedWidthKind(fn_args.type) => fn_result.value \in {1, 2, 4, 8}
      ELSE fn_result.status = "abort"

C16_Witness ==
  /\ LogicalSizeDone
  /\ fn_args.type.id = "kExtDictionary" /\ fn_args.type.size = 2
  /\ fn_result = Ok(4)

-----------------------------------------------------------------------------
(* Properties of codegenIsNull *)
IsNullReturned == fn_call = "done_codegenIsNull" /\ fn_result.status = "ok"
IsNullLiteral(e) == e.kind = "Constant" /\ e.isNull

\* C17: codegenIsNull returns the constant true for a null literal, whatever
\* the nullability of its type, the constant false for any other operand of
\* a non-nullable type, both without generating code for the operand, and
\* otherwise generates the operand once and compares it with the null
\* sentinel of its type: FCMP_OEQ against NULL_FLOAT / NULL_DOUBLE for
\* floating point, array_is_null with the row position for arrays, ICMP_EQ
\* against the integer null otherwise
C17_IsNullCodegen ==
  IsNullReturned =>
    LET e == fn_args.operand
        lv == [ir |-> "operand", expr |-> e]
    IN IF IsNullLiteral(e)
         THEN fn_result.value = [ir |-> "ConstantInt", bits |-> 1, value |-> 1]
              /\ fn_result.generated = <<>>
       ELSE IF ~e.type.nullable
         THEN fn_result.value = [ir |-> "ConstantInt", bits |-> 1, value |-> 0]
              /\ fn_result.generated = <<>>
       ELSE /\ fn_result.generated = <<e>>
            /\ fn_result.value =
                 IF e.type.k = "array"
                   THEN [ir |-> "call", fname |-> "array_is_null",
                         args |-> <<lv, [ir |-> "posArg", expr |-> e]>>]
                 ELSE IF e.type.k \in {"fp32", "fp64"}
                   THEN [ir |-> "FCmp", pred |-> "FCMP_OEQ", lhs |-> lv,
                         rhs |-> [ir |-> "llFp",
                                  value |-> IF e.type.k = "fp32" THEN "NULL_FLOAT"
                                            ELSE "NULL_DOUBLE"]]
                 ELSE [ir |-> "ICmp", pred |-> "ICMP_EQ", lhs |-> lv,
                       rhs |-> [ir |-> "inlineIntNull", type |-> e.type]]

C17_Witness ==
  /\ IsNullReturned
  /\ fn_args.operand = Constant(Ty("int32", FALSE), TRUE, 0)
  /\ fn_result.value = IRConstInt1(1)
  /\ fn_result.generated = <<>>

-----------------------------------------------------------------------------
(* Properties of the default traversal *)
VisitDone == fn_call = "done_visit"

\* the children of a node, left to right
ChildrenLeftToRight(e) ==
  CASE e.kind = "UOper" -> <<e.operand>>
    [] e.kind = "BinOper" -> <<e.left, e.right>>
    [] e.kind = "InValues" -> <<e.arg>> \o e.value_list
    [] e.kind \in {"InIntegerSet", "InSubquery", "LowerExpr", "LikelihoodExpr",
                   "CharLengthExpr", "KeyForStringExpr", "SampleRatioExpr",
                   "CardinalityExpr"} -> <<e.arg>>
    [] e.kind = "AggExpr" -> IF e.arg = NoArg THEN <<>> ELSE <<e.arg>>
    [] e.kind = "WidthBucketExpr" ->
         <<e.target_value, e.lower_bound, e.upper_bound, e.partition_count>>
    [] e.kind = "LikeExpr" ->
         <<e.arg, e.like>> \o (IF "escape" \in DOMAIN e THEN <<e.escape>> ELSE <<>>)
    [] e.kind = "RegexpExpr" ->
         <<e.arg, e.pattern>> \o (IF "escape" \in DOMAIN e THEN <<e.escape>> ELSE <<>>)
    [] e.kind = "CaseExpr" ->
         (IF Len(e.expr_pair_list) = 1
          THEN e.expr_pair_list[1]
          ELSE e.expr_pair_list[1] \o e.expr_pair_list[2]) \o <<e.else_expr>>
    [] e.kind \in {"DatetruncExpr", "ExtractExpr"} -> <<e.from_expr>>
    [] e.kind = "WindowFunction" -> e.args \o e.partition_keys \o e.order_keys
    [] e.kind \in {"FunctionOper", "FunctionOperWithCustomTypeHandling"} -> e.args
    [] e.kind = "ArrayExpr" -> e.elements
    [] e.kind = "DatediffExpr" -> <<e.start_expr, e.end_expr>>
    [] e.kind = "DateaddExpr" -> <<e.number_expr, e.datetime_expr>>
    [] OTHER -> <<>>

IsLeaf(e) == e.kind \in {"ColumnVar", "Constant", "Var"}

RECURSIVE LeftFold(_, _, _)
\* aggregateResult(... aggregateResult(seed, r1) ..., rn)
LeftFold(v, seed, results) ==
  IF results = <<>> THEN seed
  ELSE LeftFold(v, aggregateResult(v, seed, Head(results)), Tail(results))

ResultsOf(children, v) == [i \in 1..Len(children) |-> visit(children[i], v)]

\* the nodes whose default visit hands its argument's result on as it is
PassesArgResult(e) ==
  e.kind \in {"InIntegerSet", "InSubquery", "LowerExpr", "LikelihoodExpr", "AggExpr"}

\* C18: when visit returns, a column reference, constant or variable whose visit
\* method is not overridden has given defaultResult, and every other node has
\* given the left fold, by aggregateResult and seeded from defaultResult, of the
\* results of its children taken left to right (binary operator: left, right;
\* case: each condition and its result in list order, then the else branch;
\* window function: arguments, partition keys, order keys).
C18_DefaultTraversalFold ==
  VisitDone =>
    LET e == fn_args.expr
        v == fn_args.visitor
    IN /\ (IsLeaf(e) /\ v.leaves = "default") => fn_result = defaultResult(v)
       /\ ~IsLeaf(e) =>
            fn_result = LeftFold(v, defaultResult(v), ResultsOf(ChildrenLeftToRight(e), v))

\* the same for every node but those that pass their argument's result on: an
\* IN list folds its values onto the result of its argument, and the nodes of
\* PassesArgResult return the result of their argument
DefaultTraversalFoldOfFoldingNodes ==
  VisitDone =>
    LET e == fn_args.expr
        v == fn_args.visitor
        children == ChildrenLeftToRight(e)
    IN /\ (IsLeaf(e) /\ v.leaves = "default") => fn_result = defaultResult(v)
       /\ (~IsLeaf(e) /\ ~PassesArgResult(e) /\ e.kind # "InValues") =>
            fn_result = LeftFold(v, defaultResult(v), ResultsOf(children, v))
       /\ e.kind = "InValues" =>
            fn_result = LeftFold(v, visit(e.arg, v), ResultsOf(Tail(children), v))
       /\ PassesArgResult(e) =>
            fn_result = IF children = <<>> THEN defaultResult(v) ELSE visit(e.arg, v)

\* a lower-case conversion visited by a collecting visitor whose default result
\* is not empty
C18_PassedOn ==
  /\ VisitDone
  /\ fn_args.expr.kind = "LowerExpr"
  /\ fn_args.visitor.default_result # Ok(<<>>)
  /\ fn_result = visit(fn_args.expr.arg, fn_args.visitor)

-----------------------------------------------------------------------------
(* Properties of the epoch rescaling *)
ScaledDone == fn_call \in {"done_scaled_by_dimen", "done_scaled_by_units"}
Wraps == fn_args.overflow = "wraps"

\* nanoseconds, microseconds, milliseconds, seconds, days: each a multiple of the one before
UnitRank(unit) ==
  CASE unit = "kNano" -> 0 [] unit = "kMicro" -> 1 [] unit = "kMilli" -> 2
    [] unit = "kSecond" -> 3 [] unit = "kDay" -> 4 [] OTHER -> -1

RECURSIVE RankFactor(_, _)
\* how many units of rank lo make one unit of rank hi
RankFactor(hi, lo) ==
  IF hi = lo THEN I64(1)
  ELSE Mul64(IF hi = 4 THEN I64(86400) ELSE I64(1000), RankFactor(hi - 1, lo))

KnownPrecision ==
  IF fn_call = "done_scaled_by_dimen"
  THEN fn_args.dimen \in {0, 3, 6, 9}
  ELSE UnitRank(fn_args.old_unit) >= 0 /\ UnitRank(fn_args.new_unit) >= 0

ScalesUp ==
  IF fn_call = "done_scaled_by_dimen"
  THEN fn_args.direction = "ScaleUp"
  ELSE KnownPrecision /\ UnitRank(fn_args.old_unit) > UnitRank(fn_args.new_unit)

ScalesDown ==
  IF fn_call = "done_scaled_by_dimen"
  THEN fn_args.direction = "ScaleDown"
  ELSE KnownPrecision /\ UnitRank(fn_args.old_unit) <= UnitRank(fn_args.new_unit)

\* the factor between the two precisions (of a known precision)
Factor ==
  IF fn_call = "done_scaled_by_dimen"
  THEN I64(10 ^ fn_args.dimen)
  ELSE IF UnitRank(fn_args.old_unit) > UnitRank(fn_args.new_unit)
       THEN RankFactor(UnitRank(fn_args.old_unit), UnitRank(fn_args.new_unit))
       ELSE RankFactor(UnitRank(fn_args.new_unit), UnitRank(fn_args.old_unit))

\* r is epoch * factor in the integers: same sign, and the magnitudes multiply
\* without dropping a limb
IsExactProduct(r, epoch, factor) ==
  /\ MulFull(Abs64(epoch), factor) = Pad(Abs64(r), 10)
  /\ r # I64(0) => IsNeg64(r) = IsNeg64(epoch)

ScaledUpExactlyOrError ==
  ScalesUp =>
    \/ fn_result.status = "throw"
    \/ /\ fn_result.status = "ok"
       /\ KnownPrecision
       /\ IsExactProduct(fn_result.value, fn_args.epoch, Factor)

\* C19 (as stated): with the product wrapping modulo 2^64, a call that scales up
\* returns exactly epoch * factor or throws a runtime error, and a call that
\* scales down does not throw.
C19_ScaledExactlyOrError ==
  (ScaledDone /\ Wraps) =>
    /\ ScaledUpExactlyOrError
    /\ ScalesDown => fn_result.status # "throw"

\* C19 (amended): with the product wrapping modulo 2^64, a call that scales up
\* returns exactly epoch * factor or throws a runtime error; a call that scales
\* down throws exactly when the dimension is none of 0, 3, 6, 9, and then with
\* "Unknown dimen", never for an overflow.
C19_ScaledExactlyOrErrorKnownPrecision ==
  (ScaledDone /\ Wraps) =>
    /\ ScaledUpExactlyOrError
    /\ ScalesDown =>
         /\ KnownPrecision => fn_result.status = "ok"
         /\ ~KnownPrecision => fn_result = UnknownDimen

\* an overflowing scale-up was caught, on the wrapping build
C19_Witness ==
  /\ ScaledDone /\ Wraps /\ ScalesUp /\ KnownPrecision
  /\ fn_result = ScalingOverflow
  /\ ~IsExactProduct(Mul64(fn_args.epoch, Factor), fn_args.epoch, Factor)

\* on a build that takes the product not to overflow, a wrapped value comes back
WrappedEpochReturned ==
  /\ ScaledDone /\ ~Wraps /\ ScalesUp /\ KnownPrecision
  /\ fn_result.status = "ok"
  /\ ~IsExactProduct(fn_result.value, fn_args.epoch, Factor)

-----------------------------------------------------------------------------
(* Properties of ScalarExprToSql *)
SerializeDone == fn_call = "done_ScalarExprToSql"

RECURSIVE NodesOf(_)
RECURSIVE NodesOfEach(_)
\* the nodes of a tree
NodesOf(e) == <<e>> \o NodesOfEach(ChildrenLeftToRight(e))
NodesOfEach(s) == IF s = <<>> THEN <<>> ELSE NodesOf(Head(s)) \o NodesOfEach(Tail(s))

\* the variants ScalarExprToSql has a visit method for (the function with custom
\* type handling is written by the method of the plain function)
HasTextualForm(e) ==
  e.kind \in {"Var", "ColumnVar", "Constant", "UOper", "BinOper", "InValues", "LikeExpr",
              "CaseExpr", "FunctionOper", "FunctionOperWithCustomTypeHandling",
              "WindowFunction", "AggExpr"}

ContainsNodeWithoutText(e) ==
  \E i \in 1..Len(NodesOf(e)) : ~HasTextualForm(NodesOf(e)[i])

\* C20: when ScalarExprToSql has visited a tree that contains a node of a
\* variant without a textual form, it has thrown a runtime error with a
\* message and has returned no string.
C20_NoTextSignalsError ==
  (SerializeDone /\ ContainsNodeWithoutText(fn_args.expr)) =>
    /\ fn_result.status = "throw"
    /\ fn_result.value # ""

\* the same for the variants whose default visit calls defaultResult or
\* aggregateResult: all but those that hand their argument's result on
ContainsThrowingNode(e) ==
  \E i \in 1..Len(NodesOf(e)) :
     ~HasTextualForm(NodesOf(e)[i]) /\ ~PassesArgResult(NodesOf(e)[i])

ThrowingNodeSignalsError ==
  SerializeDone =>
    IF ContainsThrowingNode(fn_args.expr)
    THEN fn_result = Thrown("Expression not supported yet")
    ELSE fn_result.status = "ok"

\* LOWER(t.c1) was written as t.c1
LowerWrittenAsArgument ==
  /\ SerializeDone
  /\ fn_args.expr = ArgExpr("LowerExpr", ColumnVar(1, TInt))
  /\ fn_result = Ok(<<"t.c1">>)

-----------------------------------------------------------------------------
(* Properties of getBackend *)
GotBackend == fn_args # NoValue /\ fn_args.call = "getBackend"
LiveBackends == {i \in 1..Len(fn_result.backends) : fn_result.backends[i].live}
OwnedMachine(i) == fn_result.backends[i].obj.nvptx_target_machine_
IsCuda(i) == fn_result.backends[i].obj.class = "CUDABackend"

\* every live CUDA backend has a live target machine no other backend has, and
\* a target machine of a destroyed backend is destroyed
OwnsItsTargetMachine ==
  /\ \A i \in LiveBackends :
       IsCuda(i) =>
         /\ OwnedMachine(i) \in 1..Len(fn_result.target_machines)
         /\ fn_result.target_machines[OwnedMachine(i)].live
         /\ \A j \in 1..Len(fn_result.backends) :
              (j # i /\ IsCuda(j)) => OwnedMachine(j) # OwnedMachine(i)
  /\ \A i \in 1..Len(fn_result.backends) :
       (IsCuda(i) /\ i \notin LiveBackends) => ~fn_result.target_machines[OwnedMachine(i)].live

\* C21: the backend getBackend returns is determined by the device kind: for CPU
\* a CPUBackend without fields, made without touching a target machine or a
\* GPUTarget; for GPU a CUDABackend with a target machine made for it, which it
\* owns while it lives; for any other kind the process is aborted and no
\* backend is made.
C21_BackendByDeviceKind ==
  /\ fn_call \in {"compiler", "compiler_aborted"} => OwnsItsTargetMachine
  /\ (fn_call \in {"compiler", "compiler_aborted"} /\ GotBackend) =>
       LET before == fn_args.before
           made == fn_result.backends[Len(fn_result.backends)].obj
       IN CASE fn_args.dt = "CPU" ->
                 /\ fn_call = "compiler"
                 /\ Len(fn_result.backends) = Len(before.backends) + 1
                 /\ made = [class |-> "CPUBackend"]
                 /\ fn_result.target_machines = before.target_machines
                 /\ fn_result.gpu_targets = before.gpu_targets
            [] fn_args.dt = "GPU" ->
                 /\ fn_call = "compiler"
                 /\ Len(fn_result.backends) = Len(before.backends) + 1
                 /\ made.class = "CUDABackend"
                 /\ made.nvptx_target_machine_ = Len(before.target_machines) + 1
                 /\ Len(fn_result.target_machines) = Len(before.target_machines) + 1
            [] OTHER ->
                 /\ fn_call = "compiler_aborted"
                 /\ fn_result = before

\* a second CUDA backend was made for the same GPUTarget while the first lives,
\* and an unknown device kind has aborted a process
C21_Witness ==
  /\ fn_call = "compiler" /\ GotBackend /\ fn_args.dt = "GPU"
  /\ \E i \in LiveBackends :
       /\ i < Len(fn_result.backends) /\ IsCuda(i)
       /\ fn_result.backends[i].obj.gpu_target_ = fn_args.gpu_target
       /\ OwnedMachine(i) # OwnedMachine(Len(fn_result.backends))

C21_Aborted == fn_call = "compiler_aborted" /\ fn_args.dt = "other"

-----------------------------------------------------------------------------
(* Properties of the layout hints *)
HintsDone == fn_call = "done_getParsedQueryHint"
HintsWritten == {fn_args.hints[i] : i \in 1..Len(fn_args.hints)}
LayoutHintsRegistered == fn_result.registered \cap {"kColumnarOutput", "kRowwiseOutput"}

LayoutHintTestsPass ==
  HintsDone =>
    \A t \in LayoutHintTests :
       t[1] = fn_args.hints =>
         LET expected == IF fn_args.enable_columnar_output THEN t[3] ELSE t[4]
         IN IF t[2] = "any"
            THEN isAnyQueryHintDelivered(fn_result.registered) = expected
            ELSE isHintRegistered(fn_result.registered, t[2]) = expected

C22_Repeated ==
  /\ HintsDone
  /\ fn_args.hints = <<"rowwise_output", "rowwise_output">>
  /\ fn_args.enable_columnar_output
  /\ fn_result.registered = {"kRowwiseOutput"}

-----------------------------------------------------------------------------
(* When codegenLogicalShortCircuit short-circuits *)
\* the heuristic test of the if-chain, gate being the operand generated first
LikelyDecidedBy(optype, gate, heavy) ==
  /\ \/ optype = "kOR" /\ NVGreater(get_likelihood(gate), 9, 10)
     \/ optype = "kAND" /\ NVLess(get_likelihood(gate), 1, 10)
  /\ NVGreater(get_weight(heavy, 0), 10, 1)

ShortCircuitWanted(e) ==
  \/ contains_unsafe_division(e.right)
  \/ contains_unsafe_division(e.left)
  \/ LikelyDecidedBy(e.optype, e.left, e.right)
  \/ LikelyDecidedBy(e.optype, e.right, e.left)

\* only the left operand is unsafe, or no operand is unsafe and only the
\* exchanged test holds
SwapWanted(e) ==
  \/ contains_unsafe_division(e.left) /\ ~contains_unsafe_division(e.right)
  \/ /\ ~contains_unsafe_division(e.left) /\ ~contains_unsafe_division(e.right)
     /\ ~LikelyDecidedBy(e.optype, e.left, e.right)
     /\ LikelyDecidedBy(e.optype, e.right, e.left)

ExprOf(v) == IF v.ir = "operand" THEN v.expr ELSE v.bin_oper

\* C23: the code generated for a logical operator is the short-circuit form
\* exactly when an operand contains an unsafe division or the likelihood and
\* weight test holds for the operands in either order; in that form the
\* operands are exchanged exactly when only the left one is unsafe or, with no
\* unsafe operand, only the exchanged test holds; otherwise both operands are
\* generated in their order in one block, and no cache snapshot is taken.
C23_ShortCircuitExactlyWhen ==
  /\ CgDone =>
       \A v \in SubValues(cg_ret) :
          v.ir # "operand" =>
            /\ IsPhi(v) <=> ShortCircuitWanted(v.bin_oper)
            /\ IsPhi(v) => ((ExprOf(v.lhs_lv) # v.bin_oper.left) <=> SwapWanted(v.bin_oper))
            /\ IsPhi(v) => ExprOf(v.rhs_lv) =
                             (IF SwapWanted(v.bin_oper) THEN v.bin_oper.left ELSE v.bin_oper.right)
            /\ ~IsPhi(v) => /\ ExprOf(v.lhs_lv) = v.bin_oper.left
                            /\ ExprOf(v.rhs_lv) = v.bin_oper.right
  /\ \A i \in 1..Len(cg_stack) :
       cg_stack[i].pc \in {"eager_lhs", "eager_rhs"} =>
         /\ ~ShortCircuitWanted(cg_stack[i].expr)
         /\ cg_stack[i].anchor = {}
         /\ cg_entry_cache \subseteq fetch_cache

\* both tests hold (each operand is likely and heavy) and the operands were not
\* exchanged
C23_Witness ==
  /\ CgDone /\ IsPhi(cg_ret)
  /\ LikelyDecidedBy(cg_expr.optype, cg_expr.left, cg_expr.right)
  /\ LikelyDecidedBy(cg_expr.optype, cg_expr.right, cg_expr.left)
  /\ cg_expr.left # cg_expr.right
  /\ ExprOf(cg_ret.lhs_lv) = cg_expr.left

\* a weight of exactly 10 does not ask for the short circuit, a weight of 11 does
C23_AtWeightThreshold ==
  /\ CgDone /\ ~IsPhi(cg_ret)
  /\ cg_expr.optype = "kOR"
  /\ NVGreater(get_likelihood(cg_expr.left), 9, 10)
  /\ get_weight(cg_expr.right, 0) = NVValid(10, 1)

C23_ExchangedTest ==
  /\ CgDone /\ IsPhi(cg_ret)
  /\ ~contains_unsafe_division(cg_expr.left) /\ ~contains_unsafe_division(cg_expr.right)
  /\ ExprOf(cg_ret.lhs_lv) = cg_expr.right
  /\ get_weight(cg_expr.left, 0) = NVValid(11, 1)

-----------------------------------------------------------------------------
(* Properties of get_likelihood *)
LikelihoodDone == fn_call = "done_get_likelihood"
Known(e) == get_likelihood(e).valid
One == NVValid(1, 1)

RECURSIVE HintsOf(_)
\* the hints written in an expression
HintsOf(e) ==
  CASE e.kind = "LikelihoodExpr" -> {e.likelihood}
    [] e.kind = "UOper" -> HintsOf(e.operand)
    [] e.kind = "BinOper" -> HintsOf(e.left) \cup HintsOf(e.right)
    [] OTHER -> {}

InUnitInterval(a) == a.valid /\ a.n >= 0 /\ a.n <= a.d

\* C24: get_likelihood returns the hint of a likelihood node, 1 - likelihood(e)
\* for NOT e, the product for AND and 1 - (1 - a)(1 - b) for OR when the operand
\* likelihoods are known; with every hint in [0, 1] a known result is in [0, 1].
C24_LikelihoodRules ==
  LikelihoodDone =>
    LET e == fn_args.expr
        r == fn_result.likelihood
    IN /\ e.kind = "LikelihoodExpr" => r = NVValid(e.likelihood[1], e.likelihood[2])
       /\ (e.kind = "UOper" /\ e.optype = "kNOT" /\ Known(e.operand)) =>
            r = NVSub(One, get_likelihood(e.operand))
       /\ (e.kind = "BinOper" /\ Known(e.left) /\ Known(e.right)) =>
            /\ e.optype = "kAND" =>
                 r = NVMul(get_likelihood(e.left), get_likelihood(e.right))
            /\ e.optype = "kOR" =>
                 r = NVSub(One, NVMul(NVSub(One, get_likelihood(e.left)),
                                      NVSub(One, get_likelihood(e.right))))
       /\ (r.valid /\ \A h \in HintsOf(e) : h[1] >= 0 /\ h[1] <= h[2]) => InUnitInterval(r)

\* NOT (a AND b) over two hints of 1/20 came out as 399/400
C24_Witness ==
  /\ LikelihoodDone
  /\ fn_args.expr.kind = "UOper" /\ fn_args.expr.optype = "kNOT"
  /\ fn_args.expr.operand.kind = "BinOper" /\ fn_args.expr.operand.optype = "kAND"
  /\ fn_result.likelihood = NVValid(399, 400)

-----------------------------------------------------------------------------
(* Properties of get_weight *)
WeightDone == fn_call = "done_get_weight"
Score(n) == NVValid(n, 1)

LeafWeightByDepth ==
  (WeightDone /\ fn_args.expr.kind \notin {"LikeExpr", "RegexpExpr", "UOper", "BinOper"}) =>
    fn_result.weight = IF fn_args.depth > 4 THEN Score(1) ELSE NVInvalid

\* C27: a call of get_weight from outside makes no call deeper than depth 4,
\* and a node without a score below that depth counts 1.
C27_RecursionCapped ==
  /\ (WeightDone /\ fn_args.depth = 0) => fn_result.deepest_call <= 4
  /\ LeafWeightByDepth

\* seven NOTs over a LIKE: the call descends to depth 7 and returns 1007
C27_DeepLike ==
  /\ WeightDone /\ fn_args.depth = 0
  /\ fn_args.expr = NotChain(7, AtomLike(TRUE))
  /\ fn_result.deepest_call = 7
  /\ fn_result.weight = Score(1007)

-----------------------------------------------------------------------------
(* Properties of prioritizeQuals on output vectors with entries *)
\* the entries of s at the positions where mask m has value b, in order
RECURSIVE MaskedPart(_, _, _)
MaskedPart(s, m, b) ==
  IF s = <<>> THEN <<>>
  ELSE LET n == Len(s)
           rest == MaskedPart(SubSeq(s, 1, n - 1), m, b)
       IN IF m[n] = b THEN Append(rest, s[n]) ELSE rest

\* the non-hoisted occurrences, simple quals first, in input order
QualOccurrences == SelectSeq(simple_quals, NotHoisted) \o SelectSeq(quals, NotHoisted)

StartsWith(s, prefix) ==
  /\ Len(s) >= Len(prefix)
  /\ SubSeq(s, 1, Len(prefix)) = prefix
AppendedTo(s, prefix) == SubSeq(s, Len(prefix) + 1, Len(s))

\* C28: when prioritizeQuals has returned, each output vector is what the
\* caller passed in followed by appended qualifiers, and the appended parts
\* split the non-hoisted occurrences (simple quals first, then general quals,
\* each in input order) into two complementary subsequences: every occurrence
\* lands in exactly one vector and nothing else is added.
C28_QualsPartitioned ==
  PQDone /\ fn_call = "idle" /\ fn_args # NoValue =>
    /\ StartsWith(primary_quals, fn_args.primary)
    /\ StartsWith(deferred_quals, fn_args.deferred)
    /\ \E m \in [1..Len(QualOccurrences) -> BOOLEAN] :
         /\ AppendedTo(primary_quals, fn_args.primary) = MaskedPart(QualOccurrences, m, TRUE)
         /\ AppendedTo(deferred_quals, fn_args.deferred) = MaskedPart(QualOccurrences, m, FALSE)

\* both vectors held an entry, a qual was hoisted, a simple qual was deferred
\* and both vectors got more than one new entry
C28_Witness ==
  /\ PQDone /\ fn_args # NoValue
  /\ fn_args.primary # <<>> /\ fn_args.deferred # <<>>
  /\ Len(simple_quals) = 2 /\ Len(quals) = 3
  /\ \E i \in 1..Len(quals) : quals[i] \in hoisted_quals
  /\ \E i \in 1..Len(simple_quals) :
       /\ NotHoisted(simple_quals[i])
       /\ should_defer_eval(Heap(simple_quals[i]))
  /\ Len(QualOccurrences) = 4
  /\ Len(primary_quals) = 3
  /\ Len(deferred_quals) = 3

-----------------------------------------------------------------------------
(* Properties of constrained_not_null *)
NotNullDone == fn_call = "done_constrained_not_null"
ExcludesNullsOf(qual, e) == qual \in {IsNotNullOf(e), NotOf(IsNullOf(e))}
AdmitsNullsOf(qual, e) == qual \in {IsNullOf(e), NotOf(IsNotNullOf(e))}
HasExcludingQual ==
  \E i \in DOMAIN fn_args.quals : ExcludesNullsOf(fn_args.quals[i], fn_args.expr)

\* C29: constrained_not_null returns true only if the list holds, at the top
\* level, IS NOT NULL(e) or NOT(IS NULL(e)) with e equal to expr; it returns
\* false when the only quals over expr are IS NULL(e) or NOT(IS NOT NULL(e)),
\* and false for the empty list.
C29_OnlyExcludingQuals ==
  NotNullDone =>
    /\ fn_result => HasExcludingQual
    /\ ~HasExcludingQual => ~fn_result
    /\ fn_args.quals = <<>> => ~fn_result

\* the part that holds: true for a list with an excluding qual, false for the
\* empty list and for a list that tests no null of expr at the top level
C29_ScanFindsExcludingQuals ==
  NotNullDone =>
    /\ HasExcludingQual => fn_result
    /\ fn_args.quals = <<>> => ~fn_result
    /\ (\A i \in DOMAIN fn_args.quals :
          /\ ~ExcludesNullsOf(fn_args.quals[i], fn_args.expr)
          /\ ~AdmitsNullsOf(fn_args.quals[i], fn_args.expr)) => ~fn_result
    /\ (\A i \in DOMAIN fn_args.quals :
          fn_args.quals[i] # NotOf(IsNotNullOf(fn_args.expr))) =>
         (fn_result <=> HasExcludingQual)

\* the scan answers true on NOT(IS NOT NULL(e)) alone
C29_NegatedIsNotNull ==
  /\ NotNullDone
  /\ fn_args.quals = <<NotOf(IsNotNullOf(fn_args.expr))>>
  /\ fn_result

-----------------------------------------------------------------------------
(* Nullability across logicalType *)
LogicalTypeCalled == fn_call \in {"logicalType_again", "done_logicalType"}
NarrowInterval(t) == t.id = "kInterval" /\ t.size # 8

\* C30: logicalType preserves the nullability flag: for every type the call
\* returns a type that is nullable exactly when its argument is, dictionary
\* types narrowed to 4 bytes and fixed-length arrays turned into
\* variable-length arrays included.
C30_NullabilityPreserved ==
  LogicalTypeCalled =>
    /\ fn_result.first.status = "ok"
    /\ fn_result.first.value.nullable = fn_args.type.nullable

\* the part that holds: every type but an interval narrower than 8 bytes
\* keeps its flag
C30_NullabilityKeptOutsideNarrowIntervals ==
  (LogicalTypeCalled /\ ~NarrowInterval(fn_args.type)) =>
    /\ fn_result.first.status = "ok"
    /\ fn_result.first.value.nullable = fn_args.type.nullable

\* a nullable dictionary type of 2 bytes and a nullable fixed-length array
\* come back nullable
C30_DictionaryKeepsFlag ==
  /\ LogicalTypeCalled
  /\ fn_args.type.id = "kExtDictionary" /\ fn_args.type.size = 2 /\ fn_args.type.nullable
  /\ fn_result.first.value.size = 4 /\ fn_result.first.value.nullable

C30_ArrayKeepsFlag ==
  /\ LogicalTypeCalled
  /\ fn_args.type.id = "kFixedLenArray" /\ ~fn_args.type.nullable
  /\ fn_result.first.value.id = "kVarLenArray" /\ ~fn_result.first.value.nullable

\* a non-nullable 4-byte interval comes back nullable, or not at all
C30_IntervalFlagLost ==
  /\ LogicalTypeCalled
  /\ NarrowInterval(fn_args.type) /\ ~fn_args.type.nullable
  /\ fn_result.first.status = "ok"
  /\ fn_result.first.value.nullable

C30_IntervalNoReturn ==
  /\ fn_call = "done_logicalType"
  /\ NarrowInterval(fn_args.type)
  /\ fn_result.first.status # "ok"

====
